---------------------------- MODULE Spec2Model ----------------------------
(***************************************************************************)
(* Verification model of the jobintel canonicalization and identity        *)
(* subsystem: identity keys (utils/hashing.py), the canonicalizer          *)
(* (pipeline/transform.py), the within-run deduplicator                    *)
(* (pipeline/dedupe.py) and the latest-snapshot merger                     *)
(* (pipeline/latest.py over pipeline/load.py).                             *)
(*                                                                         *)
(* Text that the program inspects character by character is a sequence of  *)
(* one-character strings; text it only carries around is a TLA+ string.    *)
(***************************************************************************)
EXTENDS Integers, Sequences, FiniteSets, TLC

VARIABLES
    key_calls,   \* SpecKey: the generate_job_key calls made so far (arguments, result)
    key_run,     \* SpecKey: the pipeline run during which the next call happens
    dd_jobs,     \* SpecDedupe: the list handed to deduplicate_jobs
    dd_out,      \* SpecDedupe: results of deduplicate_jobs, one per call made
    tr_in,       \* SpecTransform: the arguments of transform_to_canonical
    tr_out,      \* SpecTransform: what the call produced
    staged,      \* SpecLatest: data/staged/jobs, the partitioned per-run files
    latest,      \* SpecLatest: data/staged/latest/jobs_latest.parquet (rows, or absent)
    lt_last,     \* SpecLatest: the last command run and what it read
    loc_in,      \* SpecLocation: a location text and the strict flag
    loc_out,     \* SpecLocation: the call made on them and its result
    bd_raw,      \* SpecBuild: data/raw/<run_date>, the raw postings per source and company
    bd,          \* SpecBuild: the progress of the build command
    id_calls,    \* SpecIdentity: the calls of generate_job_key or generate_company_id made so far
    xr_in,       \* SpecAcrossRuns: the arguments of deduplicate_across_runs
    xr_out       \* SpecAcrossRuns: what the call returned

vars == <<key_calls, key_run, dd_jobs, dd_out, tr_in, tr_out, staged, latest, lt_last, loc_in, loc_out, bd_raw, bd, id_calls, xr_in, xr_out>>

(***************************************************************************)
(* Python values                                                           *)
(***************************************************************************)

\* Python's None where a text value is expected
None == <<"<None>">>

\* a key that is missing from a mapping (dict.get falls back to its default)
Absent == <<"<absent>">>

Range(s) == {s[i] : i \in DOMAIN s}

(***************************************************************************)
(* str methods                                                             *)
(***************************************************************************)

UpperLetters ==
    <<"A","B","C","D","E","F","G","H","I","J","K","L","M",
      "N","O","P","Q","R","S","T","U","V","W","X","Y","Z">>

LowerLetters ==
    <<"a","b","c","d","e","f","g","h","i","j","k","l","m",
      "n","o","p","q","r","s","t","u","v","w","x","y","z">>

Digits == {"0","1","2","3","4","5","6","7","8","9"}

Whitespace == {" ", "\t", "\n"}

char_lower(c) ==
    IF \E i \in DOMAIN UpperLetters : UpperLetters[i] = c
    THEN LowerLetters[CHOOSE i \in DOMAIN UpperLetters : UpperLetters[i] = c]
    ELSE c

char_upper(c) ==
    IF \E i \in DOMAIN LowerLetters : LowerLetters[i] = c
    THEN UpperLetters[CHOOSE i \in DOMAIN LowerLetters : LowerLetters[i] = c]
    ELSE c

\* str.lower()
str_lower(s) == [i \in 1..Len(s) |-> char_lower(s[i])]

\* str.upper()
str_upper(s) == [i \in 1..Len(s) |-> char_upper(s[i])]

\* str.strip(): surrounding whitespace removed
str_strip(s) ==
    LET keep == {i \in 1..Len(s) : s[i] \notin Whitespace}
    IN  IF keep = {} THEN <<>>
        ELSE SubSeq(s, CHOOSE i \in keep : \A j \in keep : i <= j,
                       CHOOSE i \in keep : \A j \in keep : i >= j)

\* sub in s
str_contains(s, sub) ==
    \E i \in 1..(Len(s) - Len(sub) + 1) : SubSeq(s, i, i + Len(sub) - 1) = sub

RECURSIVE str_join(_, _)
\* sep.join(parts)
str_join(sep, parts) ==
    IF parts = <<>> THEN <<>>
    ELSE IF Len(parts) = 1 THEN parts[1]
    ELSE parts[1] \o sep \o str_join(sep, Tail(parts))

(***************************************************************************)
(* utils/hashing.py                                                        *)
(***************************************************************************)

\* hashlib.sha256(data).hexdigest(): collisions aside, a digest stands for
\* exactly one input, so the digest is modelled as its tagged preimage.
sha256_hexdigest(data) == <<"sha256">> \o data

\* digest[:n] : the truncated digest, again taken as collision free
hex_prefix(digest, n) == digest

generate_hash_str(data) == sha256_hexdigest(data)

generate_hash_list(data) == sha256_hexdigest(str_join(<<"|">>, data))

CompanyHashLen == 8

JobHashLen == 8

CompanyIdLen == 16

\* a mutant: the title is left out of the job hash
generate_job_key_NoTitle(source, company_name, source_job_id, title) ==
    <<source,
      hex_prefix(generate_hash_str(str_strip(str_lower(company_name))), CompanyHashLen),
      hex_prefix(generate_hash_list(<<str_strip(source_job_id)>>), JobHashLen)>>

\* a mutant: the company takes no part in the key
generate_job_key_NoCompany(source, company_name, source_job_id, title) ==
    <<source, <<>>,
      hex_prefix(generate_hash_list(<<str_strip(source_job_id), str_strip(str_lower(title))>>),
                 JobHashLen)>>

\* f"{source}_{company_hash}_{job_hash}": both hashes have a fixed width, so
\* the formatted key determines its three parts; the key is kept as the triple.
generate_job_key(source, company_name, source_job_id, title) ==
    LET company_norm == str_strip(str_lower(company_name))
        job_id_norm  == str_strip(source_job_id)
        title_norm   == str_strip(str_lower(title))
        company_hash == hex_prefix(generate_hash_str(company_norm), CompanyHashLen)
        job_hash     == hex_prefix(generate_hash_list(<<job_id_norm, title_norm>>), JobHashLen)
    IN  <<source, company_hash, job_hash>>

generate_company_id(company_name, domain) ==
    LET key == IF domain # None /\ domain # <<>>
               THEN str_strip(str_lower(company_name)) \o <<"|">> \o str_strip(str_lower(domain))
               ELSE str_strip(str_lower(company_name))
    IN  hex_prefix(generate_hash_str(key), CompanyIdLen)

(***************************************************************************)
(* SpecKey: calls of generate_job_key                                      *)
(***************************************************************************)

\* longest argument text tried
MaxStr == 1

\* characters of the argument texts: a letter in both cases and a blank
KeyAlphabet == {"a", "A", " "}

Strings(alphabet, n) == UNION {[1..k -> alphabet] : k \in 0..n}

KeyStrings == Strings(KeyAlphabet, MaxStr)

Greenhouse == <<"g","r","e","e","n","h","o","u","s","e">>

Lever == <<"l","e","v","e","r">>

KeySources == {Greenhouse, Lever}

KeyFields == {"source", "company_name", "source_job_id", "title"}

IdleKey == key_calls = <<>> /\ key_run = 1

IdleDedupe == dd_jobs = <<>> /\ dd_out = <<>>

IdleTransform == tr_in = <<>> /\ tr_out = <<>>

IdleLatest == staged = <<>> /\ latest = <<>> /\ lt_last = <<>>

IdleLocation == loc_in = <<>> /\ loc_out = <<>>

IdleBuild == bd_raw = <<>> /\ bd = <<>>

IdleIdentity == id_calls = <<>>

IdleAcrossRuns == xr_in = <<>> /\ xr_out = <<>>

InitKey == IdleAcrossRuns /\ IdleIdentity /\ IdleBuild /\ IdleLocation /\ IdleKey /\ IdleDedupe /\ IdleTransform /\ IdleLatest

KeyCallRecord(args, run) ==
    [source |-> args.source, company_name |-> args.company_name,
     source_job_id |-> args.source_job_id, title |-> args.title,
     run |-> run,
     key |-> generate_job_key(args.source, args.company_name,
                              args.source_job_id, args.title)]

\* the first call of generate_job_key
KeyFirstCall(args) ==
    /\ key_calls = <<>>
    /\ key_calls' = <<KeyCallRecord(args, key_run)>>
    /\ UNCHANGED <<key_run, dd_jobs, dd_out, tr_in, tr_out, staged, latest, lt_last,
                 loc_in, loc_out,
                 bd_raw, bd,
                 id_calls,
                 xr_in, xr_out>>

\* the process ends and a later run starts a new one
KeyRestart ==
    /\ Len(key_calls) = 1
    /\ key_run = 1
    /\ key_run' = 2
    /\ UNCHANGED <<key_calls, dd_jobs, dd_out, tr_in, tr_out, staged, latest, lt_last,
                 loc_in, loc_out,
                 bd_raw, bd,
                 id_calls,
                 xr_in, xr_out>>

\* a second call, with the first call's arguments but for argument f, which is v
KeySecondCall(f, v) ==
    /\ Len(key_calls) = 1
    /\ LET first == key_calls[1]
           args  == [g \in KeyFields |-> IF g = f THEN v ELSE first[g]]
       IN  key_calls' = Append(key_calls, KeyCallRecord(args, key_run))
    /\ UNCHANGED <<key_run, dd_jobs, dd_out, tr_in, tr_out, staged, latest, lt_last,
                 loc_in, loc_out,
                 bd_raw, bd,
                 id_calls,
                 xr_in, xr_out>>

NextKey ==
    \/ \E c, i, t \in KeyStrings :
           KeyFirstCall([source |-> Greenhouse, company_name |-> c,
                         source_job_id |-> i, title |-> t])
    \/ KeyRestart
    \/ \E s \in KeySources : KeySecondCall("source", s)
    \/ \E f \in KeyFields \ {"source"} : \E v \in KeyStrings : KeySecondCall(f, v)

SpecKey == InitKey /\ [][NextKey]_vars

\* what generate_job_key makes of an argument before hashing it: the source
\* goes in verbatim, the id trimmed, company and title lowercased and trimmed
KeyNorm(f, v) ==
    CASE f = "source"        -> v
      [] f = "source_job_id" -> str_strip(v)
      [] OTHER               -> str_strip(str_lower(v))

\* C10 as stated: the same four arguments always give the same key, whatever
\* the run, and a second call that differs from the first in any single
\* argument gives a different key (for quadruples without a blank component).
C10_AnySingleChangeChangesKey ==
    (/\ Len(key_calls) = 2
     /\ \A i \in 1..2 : \A f \in KeyFields \ {"source"} : str_strip(key_calls[i][f]) # <<>>)
    =>  LET a == key_calls[1]
            b == key_calls[2]
        IN  /\ (\A f \in KeyFields : a[f] = b[f]) => a.key = b.key
            /\ (\E f \in KeyFields : a[f] # b[f]) => a.key # b.key

\* C10 as amended: the same four arguments always give the same key, whatever
\* the run, and a second call that differs from the first in a single
\* argument gives a different key whenever that argument differs after the
\* normalisation generate_job_key applies to it (KeyNorm).
C10_KeyDeterministicAndSensitive ==
    Len(key_calls) = 2 =>
        LET a == key_calls[1]
            b == key_calls[2]
        IN  /\ (\A f \in KeyFields : a[f] = b[f]) => a.key = b.key
            /\ (\E f \in KeyFields : KeyNorm(f, a[f]) # KeyNorm(f, b[f])) => a.key # b.key

\* a later run calls with another source id and gets another key
C10_Witness ==
    /\ Len(key_calls) = 2
    /\ key_calls[1].run # key_calls[2].run
    /\ str_strip(key_calls[1].source_job_id) # str_strip(key_calls[2].source_job_id)

Acme == <<"A","c","m","e">>

\* datetime.now() as microseconds since some fixed instant
datetime(us) == [us |-> us]

\* a canonical record as the Canonicalizer builds it for company Acme
PoolJob(source, source_job_id, title, description, department, date_scraped, run_date) ==
    [source        |-> source,
     source_job_id |-> source_job_id,
     title         |-> title,
     description   |-> description,
     department    |-> department,
     date_scraped  |-> datetime(date_scraped),
     run_date      |-> run_date,
     job_key       |-> generate_job_key(source, Acme, source_job_id, title)]

(***************************************************************************)
(* pandas, as pipeline/dedupe.py and pipeline/latest.py use it             *)
(***************************************************************************)

\* job.model_dump(): the mapping field name -> field value
model_dump(job) == [f \in DOMAIN job |-> job[f]]

\* The dtype pandas infers for a column of JobRecord dumps: date_scraped is
\* always a datetime and is stored as datetime64[ns]; every other column
\* holds text, dates, lists or None and stays an object column.
ColumnDtype(column) == IF column = "date_scraped" THEN "datetime64[ns]" ELSE "object"

NanosPerMicro == 1000

\* what a frame stores for a Python value
frame_cell(column, v) ==
    IF ColumnDtype(column) = "datetime64[ns]" THEN [ns |-> v.us * NanosPerMicro] ELSE v

\* what to_dict hands back for a stored cell: a Timestamp for datetime64
python_cell(column, x) ==
    IF ColumnDtype(column) = "datetime64[ns]" THEN [Timestamp |-> x.ns] ELSE x

\* pd.DataFrame(rows): one row per mapping, in order
DataFrame(rows) ==
    [i \in 1..Len(rows) |-> [c \in DOMAIN rows[i] |-> frame_cell(c, rows[i][c])]]

\* df.to_dict("records")
to_dict_records(df) ==
    [i \in 1..Len(df) |-> [c \in DOMAIN df[i] |-> python_cell(c, df[i][c])]]

\* JobRecord(**row): validation keeps every value; a Timestamp is a datetime
\* and denotes the instant it was made from
JobRecordFromRow(row) ==
    [f \in DOMAIN row |->
        IF f = "date_scraped" THEN datetime(row[f].Timestamp \div NanosPerMicro) ELSE row[f]]

RECURSIVE SelectIndices(_, _, _)
\* the rows of df at the indices in keep, from index i on, in order
SelectIndices(df, keep, i) ==
    IF i > Len(df) THEN <<>>
    ELSE (IF i \in keep THEN <<df[i]>> ELSE <<>>) \o SelectIndices(df, keep, i + 1)

\* a mutant: keep="last"
drop_duplicates_KeepLast(df, column) ==
    SelectIndices(df, {i \in 1..Len(df) :
                          \A j \in (i + 1)..Len(df) : df[j][column] # df[i][column]}, 1)

RECURSIVE RemoveWhileIterating(_, _, _)
\* a mutant: duplicates are removed from the list being iterated, so the row
\* that follows a removed row is never looked at
RemoveWhileIterating(df, column, i) ==
    IF i > Len(df) THEN df
    ELSE IF \E j \in 1..(i - 1) : df[j][column] = df[i][column]
         THEN RemoveWhileIterating(SubSeq(df, 1, i - 1) \o SubSeq(df, i + 1, Len(df)),
                                   column, i + 1)
         ELSE RemoveWhileIterating(df, column, i + 1)

drop_duplicates_Skipping(df, column) == RemoveWhileIterating(df, column, 1)

\* a mutant: an aggregation per key that takes date_scraped from the last
\* row of the key and every other column from the first
drop_duplicates_Merged(df, column) ==
    LET last(i)   == CHOOSE j \in i..Len(df) :
                         /\ df[j][column] = df[i][column]
                         /\ \A k \in (j + 1)..Len(df) : df[k][column] # df[i][column]
        merged    == [i \in 1..Len(df) |-> [df[i] EXCEPT !.date_scraped = df[last(i)].date_scraped]]
    IN  SelectIndices(merged, {i \in 1..Len(df) :
                                  \A j \in 1..(i - 1) : df[j][column] # df[i][column]}, 1)

\* df.drop_duplicates(subset=[column], keep="first")
drop_duplicates(df, column) ==
    SelectIndices(df, {i \in 1..Len(df) :
                          \A j \in 1..(i - 1) : df[j][column] # df[i][column]}, 1)

(***************************************************************************)
(* pipeline/dedupe.py                                                      *)
(***************************************************************************)

deduplicate_jobs(jobs) ==
    IF jobs = <<>> THEN <<>>
    ELSE LET df         == DataFrame([i \in 1..Len(jobs) |-> model_dump(jobs[i])])
             df_deduped == drop_duplicates(df, "job_key")
             records    == to_dict_records(df_deduped)
         IN  [i \in 1..Len(records) |-> JobRecordFromRow(records[i])]

(***************************************************************************)
(* SpecDedupe: deduplicate_jobs on a list, then on its own result          *)
(***************************************************************************)

\* longest list handed to deduplicate_jobs
MaxJobs == 3

Seqs(S, n) == UNION {[1..k -> S] : k \in 0..n}

DedupePool ==
    {PoolJob(Greenhouse, id, <<"a">>, v[1], None, v[2], 1) :
        id \in {<<"1">>, <<"2">>}, v \in {<<"v1", 10>>, <<"v2", 20>>}}
    \cup {PoolJob(Lever, <<"1">>, <<"a">>, "v1", dep, 10, 1) : dep \in {None, <<"E","n","g">>}}

InitDedupe ==
    /\ IdleAcrossRuns /\ IdleIdentity /\ IdleBuild /\ IdleLocation /\ IdleKey /\ IdleTransform /\ IdleLatest
    /\ dd_jobs \in Seqs(DedupePool, MaxJobs)
    /\ dd_out = <<>>

\* deduplicate_jobs(jobs)
Deduplicate ==
    /\ dd_out = <<>>
    /\ dd_out' = <<deduplicate_jobs(dd_jobs)>>
    /\ UNCHANGED <<key_calls, key_run, dd_jobs, tr_in, tr_out, staged, latest, lt_last,
                 loc_in, loc_out,
                 bd_raw, bd,
                 id_calls,
                 xr_in, xr_out>>

\* deduplicate_jobs applied to what the first call returned
DeduplicateAgain ==
    /\ Len(dd_out) = 1
    /\ dd_out' = Append(dd_out, deduplicate_jobs(dd_out[1]))
    /\ UNCHANGED <<key_calls, key_run, dd_jobs, tr_in, tr_out, staged, latest, lt_last,
                 loc_in, loc_out,
                 bd_raw, bd,
                 id_calls,
                 xr_in, xr_out>>

NextDedupe == Deduplicate \/ DeduplicateAgain

SpecDedupe == InitDedupe /\ [][NextDedupe]_vars

\* the indices of jobs whose job_key no earlier index carries
FirstOfKey(jobs) ==
    {i \in 1..Len(jobs) : \A j \in 1..(i - 1) : jobs[j].job_key # jobs[i].job_key}

\* the k-th smallest member of a set of indices
KthIndex(S, k) == CHOOSE i \in S : Cardinality({j \in S : j < i}) = k - 1

\* C8: deduplicate_jobs returns, for each job_key of the input, exactly the
\* first record carrying it, equal in every field, and the kept records in
\* their input order; all later records of a key are dropped.
C8_DedupeKeepsFirstInOrder ==
    Len(dd_out) >= 1 =>
        LET out == dd_out[1]
            fst == FirstOfKey(dd_jobs)
        IN  /\ Len(out) = Cardinality(fst)
            /\ \A k \in 1..Len(out) : out[k] = dd_jobs[KthIndex(fst, k)]

\* a list whose second record repeats the key of the first with other
\* content, followed by another key, has been deduplicated
C8_Witness ==
    /\ Len(dd_out) >= 1
    /\ Len(dd_jobs) = 3
    /\ dd_jobs[1].job_key = dd_jobs[2].job_key
    /\ dd_jobs[1] # dd_jobs[2]
    /\ dd_jobs[3].job_key # dd_jobs[1].job_key
    /\ Len(dd_out[1]) = 2

\* C9: deduplicate_jobs is idempotent, dedupe(dedupe(X)) = dedupe(X), the
\* empty list included.
C9_DedupeIdempotent ==
    Len(dd_out) = 2 => dd_out[2] = dd_out[1]

\* a list with three records of one key has been deduplicated twice
C9_Witness ==
    /\ Len(dd_out) = 2
    /\ Len(dd_jobs) = 3
    /\ \A i \in 1..3 : dd_jobs[i].job_key = dd_jobs[1].job_key
    /\ Len(dd_out[1]) = 1

(***************************************************************************)
(* pipeline/load.py: the partitioned store data/staged/jobs                *)
(***************************************************************************)

\* an optional filter argument left at None; a filter on value v is {v}
NoFilter == {}

RECURSIVE str_less(_, _)
\* a < b for the lowercase directory names compared here
str_less(a, b) ==
    LET rank(c) == CHOOSE i \in DOMAIN LowerLetters : LowerLetters[i] = c
    IN  IF b = <<>> THEN FALSE
        ELSE IF a = <<>> THEN TRUE
        ELSE IF a[1] # b[1] THEN rank(a[1]) < rank(b[1])
        ELSE str_less(Tail(a), Tail(b))

\* run_date=<d>/source=<s>/ sorts before run_date=<e>/source=<t>/, or is it
PartitionNotAfter(f, g) ==
    \/ f.run_date < g.run_date
    \/ f.run_date = g.run_date /\ (f.source = g.source \/ str_less(f.source, g.source))

\* The store is read in path order.  A write adds one file, under a fresh
\* uuid name, to the directory of its partition: the file may sort anywhere
\* among the files already in that directory.
AddFile(st, file) ==
    {SubSeq(st, 1, p) \o <<file>> \o SubSeq(st, p + 1, Len(st)) :
        p \in {q \in 0..Len(st) :
                  /\ \A i \in 1..q : PartitionNotAfter(st[i], file)
                  /\ \A i \in (q + 1)..Len(st) : PartitionNotAfter(file, st[i])}}

RowsOfSource(df, source) ==
    SelectIndices(df, {i \in 1..Len(df) : df[i].source = source}, 1)

\* save_to_parquet(jobs, run_date) with the default partition_by
\* ["run_date", "source"]: the possible stores after the call
save_to_parquet(st, jobs, run_date) ==
    IF jobs = <<>> THEN {st}
    ELSE LET df      == DataFrame([i \in 1..Len(jobs) |-> model_dump(jobs[i])])
             file(s) == [run_date |-> run_date, source |-> s, rows |-> RowsOfSource(df, s)]
             add(sts, s) == IF file(s).rows = <<>> THEN sts
                            ELSE UNION {AddFile(x, file(s)) : x \in sts}
         IN  add(add({st}, Greenhouse), Lever)

RECURSIVE ReadFiles(_)
\* pd.read_parquet(dataset_dir): the rows of every file, in path order
ReadFiles(st) == IF st = <<>> THEN <<>> ELSE Head(st).rows \o ReadFiles(Tail(st))

\* load_parquet_dataset(run_date, source)
load_parquet_dataset(st, run_date, source) ==
    LET df == ReadFiles(st)
    IN  SelectIndices(df, {i \in 1..Len(df) :
                              /\ run_date = NoFilter \/ df[i].run_date \in run_date
                              /\ source = NoFilter \/ df[i].source \in source}, 1)

(***************************************************************************)
(* pipeline/latest.py                                                      *)
(***************************************************************************)

\* a mutant: an incremental update, the stored snapshot merged with the run
\* named on the command line
snapshot_input_Incremental(st, run_date) ==
    latest \o load_parquet_dataset(st, {run_date}, NoFilter)

\* a mutant: only the run named on the command line is loaded
snapshot_input_OnlyRun(st, run_date) == load_parquet_dataset(st, {run_date}, NoFilter)

\* df_all = load_parquet_dataset(): run_date is not passed on
snapshot_input(st, run_date) == load_parquet_dataset(st, NoFilter, NoFilter)

RECURSIVE SortedOrders(_, _, _)
\* every arrangement of the rows of df in which column never increases
\* (sign = 1) or never decreases (sign = -1)
SortedOrders(df, column, sign) ==
    IF df = <<>> THEN {<<>>}
    ELSE LET first == {i \in 1..Len(df) :
                          \A j \in 1..Len(df) : sign * df[i][column] >= sign * df[j][column]}
         IN  UNION {{<<df[i]>> \o rest :
                        rest \in SortedOrders(SubSeq(df, 1, i - 1) \o SubSeq(df, i + 1, Len(df)),
                                              column, sign)} : i \in first}

\* a mutant: no sort, the rows stay in the order they were supplied in
sort_values_Unsorted(df, column) == {df}

\* a mutant: ascending=True
sort_values_Ascending(df, column) == SortedOrders(df, column, -1)

\* df.sort_values(column, ascending=False): the default kind, quicksort, is
\* not a stable sort, so rows with equal values may come out in any order
sort_values_descending(df, column) == SortedOrders(df, column, 1)

\* the snapshots build_latest_snapshot may write for a non-empty df_all
latest_rows(df_all) ==
    {drop_duplicates(sorted, "job_key") : sorted \in sort_values_descending(df_all, "run_date")}

\* a mutant: no early return, and df_all["run_date"] of a frame without
\* columns raises KeyError
build_latest_snapshot_NoEmptyCheck(st, run_date) ==
    LET df_all == snapshot_input(st, run_date)
    IN  IF df_all = <<>>
        THEN {[raised |-> TRUE, written |-> FALSE, rows |-> <<>>]}
        ELSE {[raised |-> FALSE, written |-> TRUE, rows |-> rows] : rows \in latest_rows(df_all)}

\* build_latest_snapshot(run_date): the ways the call may end, with the rows
\* it writes to jobs_latest.parquet and jobs_latest.csv when it writes
build_latest_snapshot(st, run_date) ==
    LET df_all == snapshot_input(st, run_date)
    IN  IF df_all = <<>>
        THEN {[raised |-> FALSE, written |-> FALSE, rows |-> <<>>]}
        ELSE {[raised |-> FALSE, written |-> TRUE, rows |-> rows] : rows \in latest_rows(df_all)}

\* config.staged_dir / "jobs", the directory of the run partitions
JobsDir == "jobs"

\* config.staged_dir / "latest"
LatestDir == "latest"

\* a mutant: the snapshot goes into the directory of the run partitions
output_dir_Jobs == JobsDir

\* output_dir of build_latest_snapshot
output_dir == LatestDir

\* the run partitions after jobs_latest.parquet is written in directory dir
\* of config.staged_dir: a file put into the dataset directory is read with it
store_after_write(st, dir, rows) ==
    IF dir = JobsDir
    THEN <<[run_date |-> 0, source |-> <<>>, rows |-> rows]>> \o st
    ELSE st

\* get_latest_snapshot(): without a snapshot file, an empty frame
get_latest_snapshot(file) == IF file = <<>> THEN <<>> ELSE file

(***************************************************************************)
(* SpecLatest: build commands persisting runs, latest commands rebuilding  *)
(* the snapshot                                                            *)
(***************************************************************************)

\* build commands per behaviour
MaxBuilds == 2

\* canonical records produced by one build, before deduplication
MaxRunJobs == 2

\* run dates are day numbers 1..MaxDate
MaxDate == 2

RunDates == 1..MaxDate

\* the records one build may produce for run date d: one Greenhouse posting
\* scraped at two moments with different content, and one Lever posting
LatestPool(d) ==
    {PoolJob(Greenhouse, <<"1">>, <<"a">>, "v1", None, 10, d),
     PoolJob(Greenhouse, <<"1">>, <<"a">>, "v2", None, 20, d),
     PoolJob(Lever, <<"1">>, <<"a">>, "v1", None, 10, d)}

InitLatest ==
    /\ IdleAcrossRuns /\ IdleIdentity /\ IdleBuild /\ IdleLocation /\ IdleKey /\ IdleDedupe /\ IdleTransform
    /\ staged = <<>>
    /\ latest = <<>>
    /\ lt_last = [cmd |-> "none", run_date |-> 0, builds |-> 0, raised |-> FALSE,
                  previous |-> <<>>]

\* cli build, from the deduplication on: the jobs of run date d are
\* deduplicated and, when any are left, persisted
Build(d, jobs) ==
    /\ lt_last.builds < MaxBuilds
    /\ LET all_jobs == deduplicate_jobs(jobs)
       IN  staged' \in save_to_parquet(staged, all_jobs, d)
    /\ lt_last' = [cmd |-> "build", run_date |-> d, builds |-> lt_last.builds + 1,
                   raised |-> FALSE, previous |-> lt_last.previous]
    /\ UNCHANGED <<key_calls, key_run, dd_jobs, dd_out, tr_in, tr_out, latest,
                 loc_in, loc_out,
                 bd_raw, bd,
                 id_calls,
                 xr_in, xr_out>>

\* cli latest: build_latest_snapshot(run_date)
Latest(d) ==
    /\ \E end \in build_latest_snapshot(staged, d) :
           /\ latest' = IF end.written THEN end.rows ELSE latest
           /\ staged' = IF end.written THEN store_after_write(staged, output_dir, end.rows)
                        ELSE staged
           /\ lt_last' = [lt_last EXCEPT !.cmd = "latest", !.run_date = d,
                                         !.raised = end.raised, !.previous = latest]
    /\ UNCHANGED <<key_calls, key_run, dd_jobs, dd_out, tr_in, tr_out,
                 loc_in, loc_out,
                 bd_raw, bd,
                 id_calls,
                 xr_in, xr_out>>

NextLatest ==
    \/ \E d \in RunDates : \E jobs \in Seqs(LatestPool(d), MaxRunJobs) : Build(d, jobs)
    \/ \E d \in RunDates : Latest(d)

SpecLatest == InitLatest /\ [][NextLatest]_vars

\* the full history as the storage layer supplies it
History == load_parquet_dataset(staged, NoFilter, NoFilter)

KeysOf(df) == {df[i].job_key : i \in 1..Len(df)}

\* the latest run_date the history holds for a job_key
LastRunOf(k) ==
    CHOOSE d \in {History[i].run_date : i \in 1..Len(History)} :
        /\ \E i \in 1..Len(History) : History[i].job_key = k /\ History[i].run_date = d
        /\ \A i \in 1..Len(History) : History[i].job_key = k => History[i].run_date <= d

\* C1: once build_latest_snapshot has run, the snapshot holds exactly one row
\* per distinct job_key of the history: none is missing, none occurs twice.
C1_OneRowPerJobKey ==
    lt_last.cmd = "latest" =>
        /\ KeysOf(latest) = KeysOf(History)
        /\ \A i, j \in 1..Len(latest) : latest[i].job_key = latest[j].job_key => i = j

\* the snapshot was rebuilt over a history of two runs that holds one key in
\* both and another key in one of them
C1_Witness ==
    /\ lt_last.cmd = "latest"
    /\ Len(History) = 3
    /\ Cardinality(KeysOf(History)) = 2
    /\ Cardinality({History[i].run_date : i \in 1..Len(History)}) = 2
    /\ Len(latest) = 2

\* C2: the row the snapshot keeps for a job_key carries the maximum run_date
\* among the historical records of that key (so of two records of a key with
\* different run_date the later one is kept, and repeated runs of one posting
\* leave one row).
C2_KeepsLatestRunDate ==
    lt_last.cmd = "latest" =>
        \A i \in 1..Len(latest) :
            /\ \E j \in 1..Len(History) : History[j] = latest[i]
            /\ latest[i].run_date = LastRunOf(latest[i].job_key)

\* the snapshot was rebuilt over two runs of one posting with different run
\* dates, the later run ingested first
C2_Witness ==
    /\ lt_last.cmd = "latest"
    /\ Len(staged) = 2
    /\ Len(History) = 2
    /\ History[1].job_key = History[2].job_key
    /\ History[1].run_date < History[2].run_date
    /\ lt_last.run_date = 1
    /\ latest = <<History[2]>>

\* the first row of the history, in input order, with job_key k and the
\* latest run_date of k
FirstOfLastRun(k) ==
    History[CHOOSE i \in 1..Len(History) :
                /\ History[i].job_key = k /\ History[i].run_date = LastRunOf(k)
                /\ \A j \in 1..(i - 1) :
                       ~(History[j].job_key = k /\ History[j].run_date = LastRunOf(k))]

\* C3: when several historical records share job_key and run_date, the
\* snapshot keeps the one that comes first in the input order of the history.
C3_TiesKeepFirstInInputOrder ==
    lt_last.cmd = "latest" =>
        \A i \in 1..Len(latest) : latest[i] = FirstOfLastRun(latest[i].job_key)

(***************************************************************************)
(* utils/locations_us.py                                                   *)
(***************************************************************************)

\* abbreviation and full name, in the order of the US_STATES mapping
US_STATES ==
  <<
     <<<<"A", "L">>, <<"A", "l", "a", "b", "a", "m", "a">>>>,
     <<<<"A", "K">>, <<"A", "l", "a", "s", "k", "a">>>>,
     <<<<"A", "Z">>, <<"A", "r", "i", "z", "o", "n", "a">>>>,
     <<<<"A", "R">>, <<"A", "r", "k", "a", "n", "s", "a", "s">>>>,
     <<<<"C", "A">>, <<"C", "a", "l", "i", "f", "o", "r", "n", "i", "a">>>>,
     <<<<"C", "O">>, <<"C", "o", "l", "o", "r", "a", "d", "o">>>>,
     <<<<"C", "T">>, <<"C", "o", "n", "n", "e", "c", "t", "i", "c", "u", "t">>>>,
     <<<<"D", "E">>, <<"D", "e", "l", "a", "w", "a", "r", "e">>>>,
     <<<<"F", "L">>, <<"F", "l", "o", "r", "i", "d", "a">>>>,
     <<<<"G", "A">>, <<"G", "e", "o", "r", "g", "i", "a">>>>,
     <<<<"H", "I">>, <<"H", "a", "w", "a", "i", "i">>>>,
     <<<<"I", "D">>, <<"I", "d", "a", "h", "o">>>>,
     <<<<"I", "L">>, <<"I", "l", "l", "i", "n", "o", "i", "s">>>>,
     <<<<"I", "N">>, <<"I", "n", "d", "i", "a", "n", "a">>>>,
     <<<<"I", "A">>, <<"I", "o", "w", "a">>>>,
     <<<<"K", "S">>, <<"K", "a", "n", "s", "a", "s">>>>,
     <<<<"K", "Y">>, <<"K", "e", "n", "t", "u", "c", "k", "y">>>>,
     <<<<"L", "A">>, <<"L", "o", "u", "i", "s", "i", "a", "n", "a">>>>,
     <<<<"M", "E">>, <<"M", "a", "i", "n", "e">>>>,
     <<<<"M", "D">>, <<"M", "a", "r", "y", "l", "a", "n", "d">>>>,
     <<<<"M", "A">>, <<"M", "a", "s", "s", "a", "c", "h", "u", "s", "e", "t", "t", "s">>>>,
     <<<<"M", "I">>, <<"M", "i", "c", "h", "i", "g", "a", "n">>>>,
     <<<<"M", "N">>, <<"M", "i", "n", "n", "e", "s", "o", "t", "a">>>>,
     <<<<"M", "S">>, <<"M", "i", "s", "s", "i", "s", "s", "i", "p", "p", "i">>>>,
     <<<<"M", "O">>, <<"M", "i", "s", "s", "o", "u", "r", "i">>>>,
     <<<<"M", "T">>, <<"M", "o", "n", "t", "a", "n", "a">>>>,
     <<<<"N", "E">>, <<"N", "e", "b", "r", "a", "s", "k", "a">>>>,
     <<<<"N", "V">>, <<"N", "e", "v", "a", "d", "a">>>>,
     <<<<"N", "H">>, <<"N", "e", "w", " ", "H", "a", "m", "p", "s", "h", "i", "r", "e">>>>,
     <<<<"N", "J">>, <<"N", "e", "w", " ", "J", "e", "r", "s", "e", "y">>>>,
     <<<<"N", "M">>, <<"N", "e", "w", " ", "M", "e", "x", "i", "c", "o">>>>,
     <<<<"N", "Y">>, <<"N", "e", "w", " ", "Y", "o", "r", "k">>>>,
     <<<<"N", "C">>, <<"N", "o", "r", "t", "h", " ", "C", "a", "r", "o", "l", "i", "n", "a">>>>,
     <<<<"N", "D">>, <<"N", "o", "r", "t", "h", " ", "D", "a", "k", "o", "t", "a">>>>,
     <<<<"O", "H">>, <<"O", "h", "i", "o">>>>,
     <<<<"O", "K">>, <<"O", "k", "l", "a", "h", "o", "m", "a">>>>,
     <<<<"O", "R">>, <<"O", "r", "e", "g", "o", "n">>>>,
     <<<<"P", "A">>, <<"P", "e", "n", "n", "s", "y", "l", "v", "a", "n", "i", "a">>>>,
     <<<<"R", "I">>, <<"R", "h", "o", "d", "e", " ", "I", "s", "l", "a", "n", "d">>>>,
     <<<<"S", "C">>, <<"S", "o", "u", "t", "h", " ", "C", "a", "r", "o", "l", "i", "n", "a">>>>,
     <<<<"S", "D">>, <<"S", "o", "u", "t", "h", " ", "D", "a", "k", "o", "t", "a">>>>,
     <<<<"T", "N">>, <<"T", "e", "n", "n", "e", "s", "s", "e", "e">>>>,
     <<<<"T", "X">>, <<"T", "e", "x", "a", "s">>>>,
     <<<<"U", "T">>, <<"U", "t", "a", "h">>>>,
     <<<<"V", "T">>, <<"V", "e", "r", "m", "o", "n", "t">>>>,
     <<<<"V", "A">>, <<"V", "i", "r", "g", "i", "n", "i", "a">>>>,
     <<<<"W", "A">>, <<"W", "a", "s", "h", "i", "n", "g", "t", "o", "n">>>>,
     <<<<"W", "V">>, <<"W", "e", "s", "t", " ", "V", "i", "r", "g", "i", "n", "i", "a">>>>,
     <<<<"W", "I">>, <<"W", "i", "s", "c", "o", "n", "s", "i", "n">>>>,
     <<<<"W", "Y">>, <<"W", "y", "o", "m", "i", "n", "g">>>>,
     <<<<"D", "C">>, <<"D", "i", "s", "t", "r", "i", "c", "t", " ", "o", "f", " ", "C", "o", "l", "u", "m", "b", "i", "a">>>>
  >>

StateCodes == {US_STATES[k][1] : k \in DOMAIN US_STATES}

REMOTE_KEYWORDS ==
    {<<"r", "e", "m", "o", "t", "e">>,
     <<"w", "o", "r", "k", " ", "f", "r", "o", "m", " ", "h", "o", "m", "e">>,
     <<"w", "f", "h">>,
     <<"a", "n", "y", "w", "h", "e", "r", "e">>,
     <<"d", "i", "s", "t", "r", "i", "b", "u", "t", "e", "d">>,
     <<"v", "i", "r", "t", "u", "a", "l">>}

\* a mutant: "us" is a country marker too
US_KEYWORDS_WithUs ==
    {<<"u", "n", "i", "t", "e", "d", " ", "s", "t", "a", "t", "e", "s">>, <<"u", "s", "a">>, <<"u", ".", "s", ".">>, <<"u", "s">>}

US_KEYWORDS ==
    {<<"u", "n", "i", "t", "e", "d", " ", "s", "t", "a", "t", "e", "s">>, <<"u", "s", "a">>, <<"u", ".", "s", ".">>}

\* confidence in tenths
ConfidenceState == 9

ConfidenceKeyword == 7

ConfidenceFallback == 3

ConfidenceNone == 0

ZipLen == 5

\* \w
IsWord(c) == c \in Range(UpperLetters) \/ c \in Range(LowerLetters) \/ c \in Digits \/ c = "_"

\* LocationParse()
LocationParse ==
    [city |-> None, state |-> None, postal_code |-> None,
     is_remote |-> FALSE, is_us |-> FALSE, confidence |-> ConfidenceNone]

\* a mutant: the text is not lowercased before the keywords are looked for
is_remote_CaseSensitive(location_text) ==
    IF location_text = None \/ location_text = <<>> THEN FALSE
    ELSE \E keyword \in REMOTE_KEYWORDS : str_contains(location_text, keyword)

is_remote(location_text) ==
    IF location_text = None \/ location_text = <<>> THEN FALSE
    ELSE \E keyword \in REMOTE_KEYWORDS : str_contains(str_lower(location_text), keyword)

\* (?:\s*,|\s*$) matches at position j of t
MatchesCommaOrEnd(t, j) ==
    \E k \in j..(Len(t) + 1) :
        /\ \A m \in j..(k - 1) : t[m] \in Whitespace
        /\ k = Len(t) + 1 \/ t[k] = ","

\* the positions right after a match of \s+\d{5} that starts at position j of t
AfterZip(t, j) ==
    {m + ZipLen : m \in {m \in (j + 1)..(Len(t) - ZipLen + 1) :
                            /\ \A x \in j..(m - 1) : t[x] \in Whitespace
                            /\ \A x \in m..(m + ZipLen - 1) : t[x] \in Digits}}

\* \b([A-Z]{2})\b(?:\s+\d{5})?(?:\s*,|\s*$) matches at position i of t
StatePatternAt(t, i) ==
    /\ i + 1 <= Len(t)
    /\ t[i] \in Range(UpperLetters) /\ t[i + 1] \in Range(UpperLetters)
    /\ i = 1 \/ ~IsWord(t[i - 1])
    /\ i + 1 = Len(t) \/ ~IsWord(t[i + 2])
    /\ \/ MatchesCommaOrEnd(t, i + 2)
       \/ \E j \in AfterZip(t, i + 2) : MatchesCommaOrEnd(t, j)

MinOf(S) == CHOOSE x \in S : \A y \in S : x <= y

\* a mutant: a matched token is returned without looking it up in US_STATES
extract_state_code_AnyToken(text) ==
    LET upper   == str_upper(text)
        matches == {i \in 1..Len(upper) : StatePatternAt(upper, i)}
        lower   == str_lower(text)
        named   == {k \in DOMAIN US_STATES : str_contains(lower, str_lower(US_STATES[k][2]))}
    IN  IF matches # {} THEN SubSeq(upper, MinOf(matches), MinOf(matches) + 1)
        ELSE IF named # {} THEN US_STATES[MinOf(named)][1]
        ELSE None

extract_state_code(text) ==
    LET upper   == str_upper(text)
        matches == {i \in 1..Len(upper) :
                       StatePatternAt(upper, i) /\ SubSeq(upper, i, i + 1) \in StateCodes}
        lower   == str_lower(text)
        named   == {k \in DOMAIN US_STATES : str_contains(lower, str_lower(US_STATES[k][2]))}
    IN  IF matches # {} THEN SubSeq(upper, MinOf(matches), MinOf(matches) + 1)
        ELSE IF named # {} THEN US_STATES[MinOf(named)][1]
        ELSE None

\* ^(Greater|Metro)\s+ removed, ignoring case
StripQualifier(city) ==
    LET prefixes == {<<"g", "r", "e", "a", "t", "e", "r">>, <<"m", "e", "t", "r", "o">>}
        hit      == {p \in prefixes :
                        /\ Len(city) > Len(p)
                        /\ str_lower(SubSeq(city, 1, Len(p))) = p
                        /\ city[Len(p) + 1] \in Whitespace}
    IN  IF hit = {} THEN city
        ELSE LET p    == CHOOSE q \in hit : TRUE
                 rest == SubSeq(city, Len(p) + 1, Len(city))
                 keep == {i \in 1..Len(rest) : rest[i] \notin Whitespace}
             IN  IF keep = {} THEN <<>> ELSE SubSeq(rest, MinOf(keep), Len(rest))

\* text.split(",")[0]
BeforeFirstComma(text) ==
    LET commas == {i \in 1..Len(text) : text[i] = ","}
    IN  IF commas = {} THEN text ELSE SubSeq(text, 1, MinOf(commas) - 1)

extract_city(text, state_code) ==
    LET \* ^(.+?),\s*{state_code}\b : the ends k of the candidates for group 1
        ends == {k \in 1..Len(text) :
                    /\ k + 1 <= Len(text) /\ text[k + 1] = ","
                    /\ \A x \in 1..k : text[x] # "\n"
                    /\ \E j \in (k + 2)..(Len(text) - Len(state_code) + 1) :
                           /\ \A x \in (k + 2)..(j - 1) : text[x] \in Whitespace
                           /\ str_upper(SubSeq(text, j, j + Len(state_code) - 1)) = state_code
                           /\ j + Len(state_code) - 1 = Len(text)
                              \/ ~IsWord(text[j + Len(state_code)])}
        first == str_strip(BeforeFirstComma(text))
    IN  IF state_code # None /\ ends # {}
        THEN StripQualifier(str_strip(SubSeq(text, 1, MinOf(ends))))
        ELSE IF first # <<>> /\ str_upper(first) \notin StateCodes THEN first
        ELSE None

\* \b(\d{5})\b, first match
extract_postal_code(text) ==
    LET hits == {i \in 1..(Len(text) - ZipLen + 1) :
                    /\ \A x \in i..(i + ZipLen - 1) : text[x] \in Digits
                    /\ i = 1 \/ ~IsWord(text[i - 1])
                    /\ i + ZipLen - 1 = Len(text) \/ ~IsWord(text[i + ZipLen])}
    IN  IF hits = {} THEN None ELSE SubSeq(text, MinOf(hits), MinOf(hits) + ZipLen - 1)

\* a mutant: the ambiguous texts are excluded whatever strict is
parse_us_location_AlwaysStrict(location_text, strict) ==
    IF location_text = None \/ location_text = <<>> THEN LocationParse
    ELSE LET text       == str_strip(location_text)
             remote     == is_remote(text)
             state_code == extract_state_code(text)
         IN  IF state_code # None
             THEN [city        |-> extract_city(text, state_code),
                   state       |-> state_code,
                   postal_code |-> extract_postal_code(text),
                   is_remote   |-> remote,
                   is_us       |-> TRUE,
                   confidence  |-> ConfidenceState]
             ELSE IF \E keyword \in US_KEYWORDS : str_contains(str_lower(text), keyword)
             THEN [LocationParse EXCEPT !.is_remote = remote, !.is_us = TRUE,
                                        !.confidence = ConfidenceKeyword]
             ELSE IF TRUE
             THEN [LocationParse EXCEPT !.is_remote = remote, !.is_us = FALSE,
                                        !.confidence = ConfidenceNone]
             ELSE [LocationParse EXCEPT !.is_remote = remote, !.is_us = TRUE,
                                        !.confidence = ConfidenceFallback]

parse_us_location(location_text, strict) ==
    IF location_text = None \/ location_text = <<>> THEN LocationParse
    ELSE LET text       == str_strip(location_text)
             remote     == is_remote(text)
             state_code == extract_state_code(text)
         IN  IF state_code # None
             THEN [city        |-> extract_city(text, state_code),
                   state       |-> state_code,
                   postal_code |-> extract_postal_code(text),
                   is_remote   |-> remote,
                   is_us       |-> TRUE,
                   confidence  |-> ConfidenceState]
             ELSE IF \E keyword \in US_KEYWORDS : str_contains(str_lower(text), keyword)
             THEN [LocationParse EXCEPT !.is_remote = remote, !.is_us = TRUE,
                                        !.confidence = ConfidenceKeyword]
             ELSE IF strict
             THEN [LocationParse EXCEPT !.is_remote = remote, !.is_us = FALSE,
                                        !.confidence = ConfidenceNone]
             ELSE [LocationParse EXCEPT !.is_remote = remote, !.is_us = TRUE,
                                        !.confidence = ConfidenceFallback]

validate_us_location(location_text, strict) ==
    LET parsed == parse_us_location(location_text, strict)
    IN  parsed.is_us /\ (~strict \/ parsed.confidence >= ConfidenceKeyword)

(***************************************************************************)
(* pipeline/transform.py                                                   *)
(*                                                                         *)
(* A raw posting is a JSON object.  Its "id", its title ("title" for       *)
(* greenhouse, "text" for lever) and the member that holds its location    *)
(* ("location" for greenhouse, "categories" for lever) are kept; a member  *)
(* that the object does not have is Absent, and so is posted, the member  *)
(* with its timestamp ("updated_at" for greenhouse, "createdAt" for        *)
(* lever).  The location member is                                         *)
(*   [kind |-> "absent"]            the object has no such member          *)
(*   [kind |-> "null"]              the member is null                     *)
(*   [kind |-> "text"]              the member is a string, not an object  *)
(*   [kind |-> "object", name |-> v] an object whose "name" (greenhouse)   *)
(*                                  or "location" (lever) is v             *)
(* The record fields that come from the id, the title and the location     *)
(* are kept.                                                               *)
(***************************************************************************)

Unknown == <<"u", "n", "k", "n", "o", "w", "n">>

FailedUsValidation == <<"Failed US location validation">>

TransformError(detail) == <<"Transform error: ", detail>>

KeyErrorId == "'id'"

NoneHasNoGet == "'NoneType' object has no attribute 'get'"

StrHasNoGet == "'str' object has no attribute 'get'"

NoneHasNoLower == "'NoneType' object has no attribute 'lower'"

Returned(job) == [kind |-> "job", job |-> job]

ReturnedNone == [kind |-> "none"]

Raised(detail) == [kind |-> "raise", detail |-> detail]

\* .get("name", "") / .get("location", "") on the location object
get_name(obj) == IF obj.name = Absent THEN <<>> ELSE obj.name

\* an object without members is falsy
IsTruthyObject(obj) == obj.kind = "object" /\ obj.name # Absent

AustinTX == <<"A", "u", "s", "t", "i", "n", ",", " ", "T", "X">>

LondonUK == <<"L", "o", "n", "d", "o", "n", ",", " ", "U", "K">>

LocationTexts == {None, <<>>, AustinTX, LondonUK}

\* parse_us_location on the location texts of the raw postings, computed once
ParsedLocations ==
    {<<a[1], a[2], parse_us_location(a[1], a[2])>> : a \in LocationTexts \X BOOLEAN}

parsed_loc(location_raw, strict_us) ==
    (CHOOSE p \in ParsedLocations : p[1] = location_raw /\ p[2] = strict_us)[3]

enforce_us_only_Never(parsed) == FALSE

\* if not parsed_loc.is_us: return None
enforce_us_only(parsed) == ~parsed.is_us

\* a JSON number, as Lever's createdAt (milliseconds since 1970)
JsonNumber == <<"<number>">>

\* an exception that leaves _parse_date
Escapes == <<"<raise>">>

DigitChars == <<"0", "1", "2", "3", "4", "5", "6", "7", "8", "9">>

DigitValue(c) == (CHOOSE i \in DOMAIN DigitChars : DigitChars[i] = c) - 1

\* int() of a run of digits
RECURSIVE py_int(_)
py_int(s) == IF s = <<>> THEN 0 ELSE 10 * py_int(SubSeq(s, 1, Len(s) - 1)) + DigitValue(s[Len(s)])

\* str.replace("Z", "+00:00")
RECURSIVE replace_Z(_)
replace_Z(s) ==
    IF s = <<>> THEN <<>>
    ELSE (IF Head(s) = "Z" THEN <<"+", "0", "0", ":", "0", "0">> ELSE <<Head(s)>>)
         \o replace_Z(Tail(s))

AllDigits(s, a, b) == \A i \in a..b : s[i] \in Digits

DaysInMonth(year, month) ==
    IF month = 2
    THEN IF year % 4 = 0 /\ (year % 100 # 0 \/ year % 400 = 0) THEN 29 ELSE 28
    ELSE IF month \in {4, 6, 9, 11} THEN 30 ELSE 31

DateLen == 10

DateTimeLen == 19

DateTimeZoneLen == 25

MonthsPerYear == 12

HoursPerDay == 24

SixtiethsPerUnit == 60

\* YYYY-MM-DD with a month and a day that exist
IsIsoDate(s) ==
    /\ Len(s) >= DateLen
    /\ AllDigits(s, 1, 4) /\ s[5] = "-" /\ AllDigits(s, 6, 7) /\ s[8] = "-" /\ AllDigits(s, 9, 10)
    /\ py_int(SubSeq(s, 1, 4)) >= 1
    /\ py_int(SubSeq(s, 6, 7)) \in 1..MonthsPerYear
    /\ py_int(SubSeq(s, 9, 10)) \in
           1..DaysInMonth(py_int(SubSeq(s, 1, 4)), py_int(SubSeq(s, 6, 7)))

\* HH:MM:SS at position a of s
IsIsoTime(s, a) ==
    /\ AllDigits(s, a, a + 1) /\ s[a + 2] = ":" /\ AllDigits(s, a + 3, a + 4)
    /\ s[a + 5] = ":" /\ AllDigits(s, a + 6, a + 7)
    /\ py_int(SubSeq(s, a, a + 1)) < HoursPerDay
    /\ py_int(SubSeq(s, a + 3, a + 4)) < SixtiethsPerUnit
    /\ py_int(SubSeq(s, a + 6, a + 7)) < SixtiethsPerUnit

\* +HH:MM or -HH:MM at position a of s
IsIsoOffset(s, a) ==
    /\ s[a] \in {"+", "-"}
    /\ AllDigits(s, a + 1, a + 2) /\ s[a + 3] = ":" /\ AllDigits(s, a + 4, a + 5)
    /\ py_int(SubSeq(s, a + 1, a + 2)) < HoursPerDay
    /\ py_int(SubSeq(s, a + 4, a + 5)) < SixtiethsPerUnit

\* datetime.fromisoformat(s) succeeds, for texts written as a date, a date
\* and a time of day to the second, or these with a UTC offset
fromisoformat_ok(s) ==
    /\ IsIsoDate(s)
    /\ \/ Len(s) = DateLen
       \/ Len(s) = DateTimeLen /\ IsIsoTime(s, DateLen + 2)
       \/ Len(s) = DateTimeZoneLen /\ IsIsoTime(s, DateLen + 2) /\ IsIsoOffset(s, DateTimeLen + 1)

\* datetime.fromisoformat(s).date()
iso_date(s) ==
    <<"date", py_int(SubSeq(s, 1, 4)), py_int(SubSeq(s, 6, 7)), py_int(SubSeq(s, 9, 10))>>

\* a mutant: ValueError and AttributeError are not caught
_parse_date_NoCatch(date_str) ==
    IF date_str \in {Absent, None, <<>>} THEN None
    ELSE IF date_str = JsonNumber THEN Escapes
    ELSE IF fromisoformat_ok(replace_Z(date_str)) THEN iso_date(replace_Z(date_str))
    ELSE Escapes

\* _parse_date(raw_job.get(...)): a member the posting does not have is None;
\* a number has no replace (AttributeError), a text that is no ISO date makes
\* fromisoformat raise ValueError, and both are caught
_parse_date(date_str) ==
    IF date_str \in {Absent, None, <<>>} THEN None
    ELSE IF date_str = JsonNumber THEN None
    ELSE IF fromisoformat_ok(replace_Z(date_str)) THEN iso_date(replace_Z(date_str))
    ELSE None

InvalidIsoformat == "Invalid isoformat string"

TransformedJob(source, raw_job, job_id, title, location_raw, parsed, company_name, run_date) ==
    [source        |-> source,
     source_job_id |-> job_id,
     company_name  |-> company_name,
     company_id    |-> generate_company_id(company_name, None),
     title         |-> title,
     location_raw  |-> location_raw,
     city          |-> parsed.city,
     state         |-> parsed.state,
     postal_code   |-> parsed.postal_code,
     is_remote     |-> parsed.is_remote,
     country       |-> "US",
     date_posted   |-> _parse_date(raw_job.posted),
     run_date      |-> run_date,
     job_key       |-> generate_job_key(source, company_name, job_id, title)]

_transform_greenhouse_job(raw_job, company_name, run_date, strict_us) ==
    IF raw_job.id = Absent THEN Raised(KeyErrorId)
    ELSE IF raw_job.location.kind = "text" THEN Raised(StrHasNoGet)
    ELSE LET job_id       == raw_job.id
             title        == IF raw_job.title = Absent THEN <<>> ELSE raw_job.title
             location_obj == raw_job.location
             location_raw == IF IsTruthyObject(location_obj) THEN get_name(location_obj) ELSE <<>>
             parsed       == parsed_loc(location_raw, strict_us)
         IN  IF enforce_us_only(parsed) THEN ReturnedNone
             ELSE IF title = None THEN Raised(NoneHasNoLower)
             ELSE IF _parse_date(raw_job.posted) = Escapes THEN Raised(InvalidIsoformat)
             ELSE Returned(TransformedJob(Greenhouse, raw_job, job_id, title, location_raw,
                                          parsed, company_name, run_date))

_transform_lever_job(raw_job, company_name, run_date, strict_us) ==
    IF raw_job.id = Absent THEN Raised(KeyErrorId)
    ELSE IF raw_job.location.kind = "null" THEN Raised(NoneHasNoGet)
    ELSE IF raw_job.location.kind = "text" THEN Raised(StrHasNoGet)
    ELSE LET job_id       == raw_job.id
             title        == IF raw_job.title = Absent THEN <<>> ELSE raw_job.title
             categories   == raw_job.location
             found        == IF categories.kind = "absent" THEN <<>> ELSE get_name(categories)
             location_raw == IF found = None THEN <<>> ELSE found
             parsed       == parsed_loc(location_raw, strict_us)
         IN  IF enforce_us_only(parsed) THEN ReturnedNone
             ELSE IF title = None THEN Raised(NoneHasNoLower)
             ELSE IF _parse_date(raw_job.posted) = Escapes THEN Raised(InvalidIsoformat)
             ELSE Returned(TransformedJob(Lever, raw_job, job_id, title, location_raw,
                                          parsed, company_name, run_date))

_extract_job_id(raw_job, source) == IF raw_job.id = Absent THEN Unknown ELSE raw_job.id

\* reached only after the source's transform returned None
_extract_location(raw_job, source) ==
    IF source = Greenhouse
    THEN IF IsTruthyObject(raw_job.location) THEN get_name(raw_job.location) ELSE <<>>
    ELSE IF source = Lever
    THEN IF raw_job.location.kind = "absent" THEN <<>> ELSE get_name(raw_job.location)
    ELSE <<>>

\* the body of the loop for one raw posting: what it appends, and to which list
transform_one_NoCatch(raw_job, company_name, source, run_date, strict_us) ==
    LET job == IF source = Greenhouse
               THEN _transform_greenhouse_job(raw_job, company_name, run_date, strict_us)
               ELSE _transform_lever_job(raw_job, company_name, run_date, strict_us)
    IN  IF source \notin {Greenhouse, Lever} THEN [list |-> "continue"]
        ELSE IF job.kind = "job" THEN [list |-> "valid", item |-> job.job]
        ELSE IF job.kind = "none"
        THEN [list |-> "rejected",
              item |-> [company_name  |-> company_name,
                        source        |-> source,
                        source_job_id |-> _extract_job_id(raw_job, source),
                        reason        |-> FailedUsValidation,
                        raw_location  |-> _extract_location(raw_job, source)]]
        ELSE [list |-> "propagate"]

transform_one(raw_job, company_name, source, run_date, strict_us) ==
    LET job == IF source = Greenhouse
               THEN _transform_greenhouse_job(raw_job, company_name, run_date, strict_us)
               ELSE _transform_lever_job(raw_job, company_name, run_date, strict_us)
    IN  IF source \notin {Greenhouse, Lever} THEN [list |-> "continue"]
        ELSE IF job.kind = "job" THEN [list |-> "valid", item |-> job.job]
        ELSE IF job.kind = "none"
        THEN [list |-> "rejected",
              item |-> [company_name  |-> company_name,
                        source        |-> source,
                        source_job_id |-> _extract_job_id(raw_job, source),
                        reason        |-> FailedUsValidation,
                        raw_location  |-> _extract_location(raw_job, source)]]
        ELSE [list |-> "rejected",
              item |-> [company_name  |-> company_name,
                        source        |-> source,
                        source_job_id |-> _extract_job_id(raw_job, source),
                        reason        |-> TransformError(job.detail)]]

\* the items appended to one of the two lists, in the order of the batch
Appended(steps, list) ==
    LET IsFor(step) == step.list = list
        chosen      == SelectSeq(steps, IsFor)
    IN  [k \in 1..Len(chosen) |-> chosen[k].item]

transform_to_canonical(raw_jobs, company_name, source, run_date, strict_us) ==
    LET steps   == [i \in 1..Len(raw_jobs) |->
                       transform_one(raw_jobs[i], company_name, source, run_date, strict_us)]
        escapes == {i \in 1..Len(raw_jobs) : steps[i].list = "propagate"}
    IN  IF escapes # {}
        THEN [called |-> TRUE, raised |-> TRUE, valid_jobs |-> <<>>, rejected_jobs |-> <<>>]
        ELSE [called        |-> TRUE,
              raised        |-> FALSE,
              valid_jobs    |-> Appended(steps, "valid"),
              rejected_jobs |-> Appended(steps, "rejected")]

(***************************************************************************)
(* SpecTransform: one call of transform_to_canonical on a batch of raw     *)
(* postings.                                                               *)
(***************************************************************************)

MaxBatch == 2

Workday == <<"w", "o", "r", "k", "d", "a", "y">>

TransformSources == {Greenhouse, Lever, Workday}

LocationMembers ==
    {[kind |-> "absent", name |-> Absent],
     [kind |-> "null", name |-> Absent],
     [kind |-> "text", name |-> Absent],
     [kind |-> "object", name |-> None],
     [kind |-> "object", name |-> AustinTX],
     [kind |-> "object", name |-> LondonUK]}

\* every shape of location, with an id that is present or missing and a
\* title that is a string or null
RawPool ==
    [id       : {Absent, <<"1">>, <<"2">>},
     title    : {None, <<"a">>},
     location : LocationMembers,
     posted   : {Absent}]

NotCalled == [called |-> FALSE, raised |-> FALSE, valid_jobs |-> <<>>, rejected_jobs |-> <<>>]

InitTransform ==
    /\ IdleAcrossRuns /\ IdleIdentity /\ IdleBuild /\ IdleLocation /\ IdleKey /\ IdleDedupe /\ IdleLatest
    /\ tr_in \in [raw_jobs     : Seqs(RawPool, MaxBatch),
                  company_name : {Acme},
                  source       : TransformSources,
                  run_date     : {1},
                  strict_us    : BOOLEAN]
    /\ tr_out = NotCalled

Transform ==
    /\ ~tr_out.called
    /\ tr_out' = transform_to_canonical(tr_in.raw_jobs, tr_in.company_name, tr_in.source,
                                        tr_in.run_date, tr_in.strict_us)
    /\ UNCHANGED <<key_calls, key_run, dd_jobs, dd_out, tr_in, staged, latest, lt_last,
                 loc_in, loc_out,
                 bd_raw, bd,
                 id_calls,
                 xr_in, xr_out>>

NextTransform == Transform

SpecTransform == InitTransform /\ [][NextTransform]_vars

KnownSources == {Greenhouse, Lever}

\* what canonicalizing posting i of the batch returns or raises
Outcome(i) ==
    IF tr_in.source = Greenhouse
    THEN _transform_greenhouse_job(tr_in.raw_jobs[i], tr_in.company_name, tr_in.run_date,
                                   tr_in.strict_us)
    ELSE _transform_lever_job(tr_in.raw_jobs[i], tr_in.company_name, tr_in.run_date,
                              tr_in.strict_us)

\* the postings of the batch whose canonicalization raises
ErrIdx ==
    {i \in 1..Len(tr_in.raw_jobs) : tr_in.source \in KnownSources /\ Outcome(i).kind = "raise"}

\* the location a posting carries: the value in its location member, "" when
\* it has none
RawLocationOf(raw_job) ==
    IF raw_job.location.kind = "object" /\ raw_job.location.name # Absent
    THEN raw_job.location.name
    ELSE <<>>

\* the postings that reach the classification, by its verdict
ClassifiedIdx(is_us) ==
    {i \in 1..Len(tr_in.raw_jobs) :
        /\ tr_in.source \in KnownSources
        /\ i \notin ErrIdx
        /\ parsed_loc(RawLocationOf(tr_in.raw_jobs[i]), tr_in.strict_us).is_us = is_us}

UsRejects == SelectSeq(tr_out.rejected_jobs, LAMBDA r : r.reason = FailedUsValidation)

ErrRejects == SelectSeq(tr_out.rejected_jobs, LAMBDA r : r.reason[1] = "Transform error: ")

\* C4: the postings whose location is classified not-US give no record in
\* the valid list and, in batch order, one reject each with the reason
\* "Failed US location validation" and the location the posting carries; the
\* valid list holds one record per posting classified US, and each record has
\* a location classified US and country "US".
C4_NonUsRejectedOnce ==
    tr_out.called =>
        /\ Len(UsRejects) = Cardinality(ClassifiedIdx(FALSE))
        /\ \A k \in 1..Len(UsRejects) :
               LET raw_job == tr_in.raw_jobs[KthIndex(ClassifiedIdx(FALSE), k)]
               IN  UsRejects[k] = [company_name  |-> tr_in.company_name,
                                   source        |-> tr_in.source,
                                   source_job_id |-> raw_job.id,
                                   reason        |-> FailedUsValidation,
                                   raw_location  |-> RawLocationOf(raw_job)]
        /\ Len(tr_out.valid_jobs) = Cardinality(ClassifiedIdx(TRUE))
        /\ \A k \in 1..Len(tr_out.valid_jobs) :
               LET raw_job == tr_in.raw_jobs[KthIndex(ClassifiedIdx(TRUE), k)]
                   job     == tr_out.valid_jobs[k]
               IN  /\ job.source_job_id = raw_job.id
                   /\ job.location_raw = RawLocationOf(raw_job)
                   /\ parsed_loc(job.location_raw, tr_in.strict_us).is_us
                   /\ job.country = "US"

\* a batch that gave a valid record and a US-validation reject, one of the
\* rejects carrying a foreign place
C4_Witness ==
    /\ tr_out.called
    /\ Len(tr_out.valid_jobs) >= 1
    /\ \E k \in 1..Len(UsRejects) : UsRejects[k].raw_location = LondonUK

\* C5: the call never raises; the postings whose canonicalization raises
\* give, in batch order, one reject each with the reason "Transform error:
\* <detail>", and with a known source every posting of the batch, before or
\* after a raising one, is appended to one of the two lists.
C5_ErrorsContained ==
    tr_out.called =>
        /\ ~tr_out.raised
        /\ Len(ErrRejects) = Cardinality(ErrIdx)
        /\ \A k \in 1..Len(ErrRejects) :
               LET i == KthIndex(ErrIdx, k)
               IN  ErrRejects[k] =
                       [company_name  |-> tr_in.company_name,
                        source        |-> tr_in.source,
                        source_job_id |-> IF tr_in.raw_jobs[i].id = Absent THEN Unknown
                                          ELSE tr_in.raw_jobs[i].id,
                        reason        |-> TransformError(Outcome(i).detail)]
        /\ tr_in.source \in KnownSources =>
               Len(tr_out.valid_jobs) + Len(UsRejects) =
                   Len(tr_in.raw_jobs) - Cardinality(ErrIdx)

\* a posting without id raised, and the posting after it became a valid record
C5_Witness ==
    /\ tr_out.called
    /\ \E i \in ErrIdx :
           /\ tr_in.raw_jobs[i].id = Absent
           /\ i < Len(tr_in.raw_jobs)
           /\ (i + 1) \in ClassifiedIdx(TRUE)
    /\ Len(tr_out.valid_jobs) >= 1

\* C6: transform_to_canonical raises exactly when the source is neither
\* "greenhouse" nor "lever".
C6_UnknownSourceRaises ==
    tr_out.called => (tr_out.raised <=> tr_in.source \notin KnownSources)

\* C7: accepted count + rejected count = number of raw postings, for every
\* call.
C7_EveryPostingAccounted ==
    tr_out.called =>
        Len(tr_out.valid_jobs) + Len(tr_out.rejected_jobs) = Len(tr_in.raw_jobs)

(***************************************************************************)
(* the snapshot and the history                                            *)
(***************************************************************************)

\* C12: a call of build_latest_snapshot leaves the run partitions, their
\* files and the records in them as they were.
C12_HistoryUntouchedBySnapshot ==
    [][lt_last'.cmd = "latest" => staged' = staged]_vars

\* the snapshot was written over a history of two files, which are still
\* the two files the builds wrote
C12_Witness ==
    /\ lt_last.cmd = "latest"
    /\ lt_last.builds = 2
    /\ Len(staged) = 2
    /\ \A i \in 1..2 : staged[i].run_date \in RunDates /\ staged[i].rows # <<>>
    /\ latest # <<>>

\* C13: over a history without records build_latest_snapshot ends without
\* error and the snapshot read back is empty.
C13_EmptyHistoryEmptySnapshot ==
    (lt_last.cmd = "latest" /\ History = <<>>) =>
        /\ ~lt_last.raised
        /\ get_latest_snapshot(latest) = <<>>

\* the snapshot was built after a run that produced no records
C13_Witness ==
    /\ lt_last.cmd = "latest"
    /\ lt_last.builds >= 1
    /\ History = <<>>
    /\ staged = <<>>

\* no two records of the history share job_key and run_date
NoTies(df) ==
    \A i, j \in 1..Len(df) :
        (df[i].job_key = df[j].job_key /\ df[i].run_date = df[j].run_date) => i = j

\* snap is a projection of hist: one row per job_key of hist, each a record
\* of hist with the latest run_date hist holds for its key
IsProjection(snap, hist) ==
    /\ KeysOf(snap) = KeysOf(hist)
    /\ \A i, j \in 1..Len(snap) : snap[i].job_key = snap[j].job_key => i = j
    /\ \A i \in 1..Len(snap) :
           /\ \E j \in 1..Len(hist) : hist[j] = snap[i]
           /\ \A j \in 1..Len(hist) :
                  hist[j].job_key = snap[i].job_key => hist[j].run_date <= snap[i].run_date

C23_SnapshotIsViewUpToRunDate ==
    lt_last.cmd = "latest" =>
        /\ \A j \in 1..Len(History) :
               History[j].run_date = lt_last.run_date => History[j].job_key \in KeysOf(latest)
        /\ \A i \in 1..Len(latest) : latest[i].run_date <= lt_last.run_date

\* C24: over any sequence of builds and snapshot rebuilds, a job_key that is
\* in the stored snapshot is in every later stored snapshot.
C24_SnapshotKeysNeverShrink ==
    [][KeysOf(latest) \subseteq KeysOf(latest')]_vars

\* a snapshot was built after the first run and rebuilt after the second: it
\* still holds, with run_date 1, a posting that the second run did not hold,
\* next to a posting that came with the second run
C24_Witness ==
    /\ lt_last.cmd = "latest"
    /\ lt_last.builds = 2
    /\ lt_last.previous # <<>>
    /\ KeysOf(lt_last.previous) \subseteq KeysOf(latest)
    /\ KeysOf(lt_last.previous) # KeysOf(latest)
    /\ \E i \in 1..Len(latest) :
           /\ latest[i].run_date = 1
           /\ latest[i].job_key \in KeysOf(lt_last.previous)
           /\ \A j \in 1..Len(History) :
                  History[j].run_date = 2 => History[j].job_key # latest[i].job_key
    /\ \E i \in 1..Len(latest) : latest[i].run_date = 2

\* of a set of records, those with the latest run_date of their job_key
LatestOf(records) ==
    {r \in records : \A q \in records : q.job_key = r.job_key => q.run_date <= r.run_date}

\* C25: when no two records of the history share job_key and run_date, the
\* rows of the snapshot are, as a set, determined by the set of records of
\* the history alone, whatever the order in which the runs were ingested and
\* are read: for each job_key the record with the latest run_date.  A run
\* with an earlier run_date ingested after a later one replaces nothing.
C25_SnapshotIndependentOfIngestOrder ==
    (lt_last.cmd = "latest" /\ NoTies(History)) =>
        Range(latest) = LatestOf(Range(History))

\* backfill: the snapshot stored before held the posting with run_date 2
\* and nothing of run 1; then run 1 was ingested, with that posting and
\* another one, and the snapshot was rebuilt: the posting still has run_date 2
C25_Witness ==
    /\ lt_last.cmd = "latest"
    /\ NoTies(History)
    /\ Len(lt_last.previous) = 1
    /\ lt_last.previous[1].run_date = 2
    /\ lt_last.previous[1] \in Range(latest)
    /\ \E j \in 1..Len(History) :
           /\ History[j].run_date = 1
           /\ History[j].job_key = lt_last.previous[1].job_key
    /\ \E i \in 1..Len(latest) :
           /\ latest[i].run_date = 1
           /\ latest[i].job_key # lt_last.previous[1].job_key

\* C26: every row of the stored snapshot is, field by field, one record of
\* the persisted history.
C26_SnapshotRowsAreHistoryRecords ==
    lt_last.cmd = "latest" => \A i \in 1..Len(latest) : latest[i] \in Range(History)

\* the history holds a posting in two runs with different description and
\* scrape time; the snapshot holds one of the two records whole
C26_Witness ==
    /\ lt_last.cmd = "latest"
    /\ \E j, k \in 1..Len(History) :
           /\ History[j].job_key = History[k].job_key
           /\ History[j].run_date < History[k].run_date
           /\ History[j].description # History[k].description
           /\ History[j].date_scraped # History[k].date_scraped
           /\ History[k] \in Range(latest)
           /\ History[j] \notin Range(latest)

(***************************************************************************)
(* SpecLocation: one call of a function of utils/locations_us.py on a      *)
(* location text                                                           *)
(***************************************************************************)

\* longest run of blanks between a state token and what follows it
MaxBlanks == 1

Blanks(n) == [i \in 1..n |-> " "]

\* texts around a two-letter token: before it, the token, what follows it
\* after some blanks, and the rest
TokenPrefixes ==
    {<<>>,
     <<"A", "u", "s", "t", "i", "n", ",", " ">>,
     <<"D", "o", "w", "n", "t", "o", "w", "n", ",", " ", "A", "u", "s", "t", "i", "n", ",", " ">>}

TokenWords ==
    {<<"T", "X">>,
     <<"t", "x">>,
     <<"U", "K">>}

TokenFollowers ==
    {<<>>,
     <<",">>,
     <<"7", "8", "7", "0", "1">>,
     <<"7", "8", "7", "0">>,
     <<"7", "8", "7", "0", "1", "1">>}

TokenSuffixes ==
    {<<>>,
     <<"-", "1", "2", "3", "4">>,
     <<" ", "U", "S", "A">>,
     <<",", " ", "R", "e", "m", "o", "t", "e">>}

TokenTexts ==
    {p \o w \o Blanks(b) \o f \o x :
        p \in TokenPrefixes, w \in TokenWords, b \in 0..MaxBlanks,
        f \in TokenFollowers, x \in TokenSuffixes}

\* texts made of a place or a way of working, a separator and a country or
\* state
PlaceHeads ==
    {<<>>,
     <<"R", "e", "m", "o", "t", "e">>,
     <<"R", "E", "M", "O", "T", "E">>,
     <<"W", "o", "r", "k", " ", "f", "r", "o", "m", " ", "h", "o", "m", "e">>,
     <<"w", "f", "h">>,
     <<"A", "n", "y", "w", "h", "e", "r", "e">>,
     <<"D", "i", "s", "t", "r", "i", "b", "u", "t", "e", "d">>,
     <<"V", "i", "r", "t", "u", "a", "l">>,
     <<"G", "l", "o", "b", "a", "l">>,
     <<"M", "u", "l", "t", "i", "p", "l", "e", " ", "L", "o", "c", "a", "t", "i", "o", "n", "s">>,
     <<"L", "o", "n", "d", "o", "n">>,
     <<"S", "a", "n", " ", "F", "r", "a", "n", "c", "i", "s", "c", "o">>}

PlaceSeparators ==
    {<<>>,
     <<" ">>,
     <<",", " ">>}

PlaceTails ==
    {<<>>,
     <<"U", "S">>,
     <<"U", "S", "A">>,
     <<"u", "s", "a">>,
     <<"U", "n", "i", "t", "e", "d", " ", "S", "t", "a", "t", "e", "s">>,
     <<"U", ".", "S", ".">>,
     <<"U", "K">>,
     <<"C", "A">>,
     <<"C", "A", " ", "(", "R", "e", "m", "o", "t", "e", ")">>}

PlaceTexts == {h \o p \o t : h \in PlaceHeads, p \in PlaceSeparators, t \in PlaceTails}

\* the full name of each jurisdiction: alone, after a city, and in lowercase
NameTexts ==
    UNION {{US_STATES[k][2],
            <<"B", "o", "s", "t", "o", "n", ",", " ">> \o US_STATES[k][2],
            str_lower(US_STATES[k][2])} : k \in DOMAIN US_STATES}

LocationInputs == TokenTexts \cup PlaceTexts \cup NameTexts

NoLocationCall ==
    [op |-> "none", parsed |-> LocationParse, valid |-> FALSE, state_code |-> None,
     remote |-> FALSE, rejected |-> FALSE]

InitLocation ==
    /\ IdleAcrossRuns /\ IdleIdentity /\ IdleBuild /\ IdleKey /\ IdleDedupe /\ IdleTransform /\ IdleLatest
    /\ loc_in \in [text : LocationInputs, strict : BOOLEAN]
    /\ loc_out = NoLocationCall

ParseLocation ==
    /\ loc_out.op = "none"
    /\ loc_out' = [loc_out EXCEPT !.op = "parse_us_location",
                                  !.parsed = parse_us_location(loc_in.text, loc_in.strict)]
    /\ UNCHANGED <<key_calls, key_run, dd_jobs, dd_out, tr_in, tr_out, staged, latest, lt_last,
                 loc_in,
                 bd_raw, bd,
                 id_calls,
                 xr_in, xr_out>>

ValidateLocation ==
    /\ loc_out.op = "none"
    /\ loc_out' = [loc_out EXCEPT !.op = "validate_us_location",
                                  !.valid = validate_us_location(loc_in.text, loc_in.strict)]
    /\ UNCHANGED <<key_calls, key_run, dd_jobs, dd_out, tr_in, tr_out, staged, latest, lt_last,
                 loc_in,
                 bd_raw, bd,
                 id_calls,
                 xr_in, xr_out>>

ExtractStateCode ==
    /\ loc_out.op = "none"
    /\ loc_out' = [loc_out EXCEPT !.op = "extract_state_code",
                                  !.state_code = extract_state_code(loc_in.text)]
    /\ UNCHANGED <<key_calls, key_run, dd_jobs, dd_out, tr_in, tr_out, staged, latest, lt_last,
                 loc_in,
                 bd_raw, bd,
                 id_calls,
                 xr_in, xr_out>>

IsRemote ==
    /\ loc_out.op = "none"
    /\ loc_out' = [loc_out EXCEPT !.op = "is_remote", !.remote = is_remote(loc_in.text)]
    /\ UNCHANGED <<key_calls, key_run, dd_jobs, dd_out, tr_in, tr_out, staged, latest, lt_last,
                 loc_in,
                 bd_raw, bd,
                 id_calls,
                 xr_in, xr_out>>

\* the location step of _transform_greenhouse_job and _transform_lever_job
\* on the location text of a posting: the text is parsed and the posting is
\* rejected (None is returned) when the parse is not US
EnforceUsOnly ==
    /\ loc_out.op = "none"
    /\ loc_out' = [loc_out EXCEPT !.op = "enforce_us_only",
                                  !.rejected = enforce_us_only(parse_us_location(loc_in.text,
                                                                                 loc_in.strict))]
    /\ UNCHANGED <<key_calls, key_run, dd_jobs, dd_out, tr_in, tr_out, staged, latest, lt_last,
                 loc_in,
                 bd_raw, bd,
                 id_calls,
                 xr_in, xr_out>>

NextLocation ==
    ParseLocation \/ ValidateLocation \/ ExtractStateCode \/ IsRemote \/ EnforceUsOnly

SpecLocation == InitLocation /\ [][NextLocation]_vars

\* a state code stands at position i of t as a word of its own
IsStateToken(t, i) ==
    /\ i + 1 <= Len(t)
    /\ SubSeq(t, i, i + 1) \in StateCodes
    /\ i = 1 \/ ~IsWord(t[i - 1])
    /\ i + 1 = Len(t) \/ ~IsWord(t[i + 2])

\* the token at position i is followed, after blanks if any, by a comma
FollowedByComma(t, i) ==
    \E j \in (i + 2)..Len(t) : t[j] = "," /\ \A x \in (i + 2)..(j - 1) : t[x] = " "

\* the token at position i is followed, after at least one blank, by a code
\* of exactly five digits
FollowedByZip(t, i) ==
    \E j \in (i + 3)..(Len(t) - ZipLen + 1) :
        /\ \A x \in (i + 2)..(j - 1) : t[x] = " "
        /\ \A x \in j..(j + ZipLen - 1) : t[x] \in Digits
        /\ j + ZipLen - 1 = Len(t) \/ t[j + ZipLen] \notin Digits

\* C14: a text holding a state token followed by a comma or by a 5-digit
\* code is parsed, under strict, as US with confidence 0.9 and a state.
C14_StateTokenIsUsAtNineTenths ==
    (/\ loc_out.op = "parse_us_location"
     /\ loc_in.strict
     /\ \E i \in 1..Len(loc_in.text) :
            /\ IsStateToken(loc_in.text, i)
            /\ FollowedByComma(loc_in.text, i) \/ FollowedByZip(loc_in.text, i))
    =>  /\ loc_out.parsed.is_us
        /\ loc_out.parsed.confidence = 9
        /\ loc_out.parsed.state # None

\* the text names the country: "united states", "usa" or "u.s." in any case
NamesUsCountry(t) ==
    \E marker \in {<<"u", "n", "i", "t", "e", "d", " ", "s", "t", "a", "t", "e", "s">>, <<"u", "s", "a">>, <<"u", ".", "s", ".">>} :
        str_contains(str_lower(t), marker)

AmbiguousExamples ==
    {<<"R", "e", "m", "o", "t", "e">>,
     <<"M", "u", "l", "t", "i", "p", "l", "e", " ", "L", "o", "c", "a", "t", "i", "o", "n", "s">>,
     <<"G", "l", "o", "b", "a", "l">>,
     <<"A", "n", "y", "w", "h", "e", "r", "e">>,
     <<"L", "o", "n", "d", "o", "n", ",", " ", "U", "K">>}

C16_RemoteUsIsValid ==
    (loc_out.op = "validate_us_location" /\ loc_in.strict) =>
        /\ loc_in.text = <<"R", "e", "m", "o", "t", "e", ",", " ", "U", "S">> => loc_out.valid
        /\ loc_in.text = <<"S", "a", "n", " ", "F", "r", "a", "n", "c", "i", "s", "c", "o", ",", " ", "C", "A">> => loc_out.valid
        /\ loc_in.text = <<"L", "o", "n", "d", "o", "n", ",", " ", "U", "K">> => ~loc_out.valid

\* the text holds, in any case, one of the six words for remote work
SaysRemote(t) ==
    \E word \in {<<"r", "e", "m", "o", "t", "e">>,
                 <<"w", "o", "r", "k", " ", "f", "r", "o", "m", " ", "h", "o", "m", "e">>,
                 <<"w", "f", "h">>,
                 <<"a", "n", "y", "w", "h", "e", "r", "e">>,
                 <<"d", "i", "s", "t", "r", "i", "b", "u", "t", "e", "d">>,
                 <<"v", "i", "r", "t", "u", "a", "l">>} :
        str_contains(str_lower(t), word)

\* C17: for a non-empty text and either value of strict, the is_remote of
\* the parse is true exactly when the text holds one of the six words,
\* whatever is_us and confidence are; is_remote(text) is that same verdict.
C17_RemoteIndependentOfUs ==
    /\ (loc_out.op = "parse_us_location" /\ loc_in.text # <<>>) =>
           (loc_out.parsed.is_remote <=> SaysRemote(loc_in.text))
    /\ loc_out.op = "is_remote" => (loc_out.remote <=> SaysRemote(loc_in.text))

\* "REMOTE, UK" was parsed under strict: remote, and not US
C17_Witness ==
    /\ loc_out.op = "parse_us_location"
    /\ loc_in.text = <<"R", "E", "M", "O", "T", "E", ",", " ", "U", "K">>
    /\ loc_in.strict
    /\ loc_out.parsed.is_remote
    /\ ~loc_out.parsed.is_us

\* C20: for each of the 51 jurisdictions, a text that is its full name, in
\* either case or after a city, and holds no two-letter state token gives
\* the code of that jurisdiction.
C20_FullNameGivesItsCode ==
    loc_out.op = "extract_state_code" =>
        \A k \in DOMAIN US_STATES :
            (/\ loc_in.text \in {US_STATES[k][2],
                                 <<"B", "o", "s", "t", "o", "n", ",", " ">> \o US_STATES[k][2],
                                 str_lower(US_STATES[k][2])}
             /\ ~\E i \in 1..Len(loc_in.text) : IsStateToken(loc_in.text, i))
            => loc_out.state_code = US_STATES[k][1]

\* the segment between commas that ends at the comma before position i of t,
\* the token at i coming after that comma and blanks if any; None when no
\* comma comes before the token in that way
SegmentBefore(t, i) ==
    LET commas == {c \in 1..(i - 1) : t[c] = "," /\ \A x \in (c + 1)..(i - 1) : t[x] = " "}
    IN  IF commas = {} THEN None
        ELSE LET c     == CHOOSE x \in commas : TRUE
                 prior == {x \in 1..(c - 1) : t[x] = ","}
                 from  == IF prior = {} THEN 1
                          ELSE (CHOOSE x \in prior : \A y \in prior : y <= x) + 1
             IN  str_strip(SubSeq(t, from, c - 1))

\* C21: when the state of the parse is a state token of the text that comes
\* after a comma and a segment that is not empty, the city is the one segment between commas that precedes
\* that token, without a leading "Greater " or "Metro "; "New York, NY 10001"
\* gives the city "New York" and the postal code "10001".
C21_CityIsSegmentBeforeState ==
    loc_out.op = "parse_us_location" =>
        \A i \in 1..Len(loc_in.text) :
            (/\ IsStateToken(str_upper(loc_in.text), i)
             /\ loc_out.parsed.state = str_upper(SubSeq(loc_in.text, i, i + 1))
             /\ SegmentBefore(loc_in.text, i) \notin {None, <<>>})
            => loc_out.parsed.city = StripQualifier(SegmentBefore(loc_in.text, i))

\* C28: for every text and both values of strict, the parse has confidence
\* 0.0, 0.3, 0.7 or 0.9; is_us exactly when the confidence is above 0; a
\* state exactly when the confidence is 0.9, and then one of the 51 codes;
\* a city or a postal code only with a state; and under strict never the
\* confidence 0.3.
C28_ParseResultIsConsistent ==
    loc_out.op = "parse_us_location" =>
        LET parsed == loc_out.parsed
        IN  /\ parsed.confidence \in {ConfidenceNone, ConfidenceFallback, ConfidenceKeyword,
                                      ConfidenceState}
            /\ parsed.is_us <=> parsed.confidence > 0
            /\ parsed.state # None <=> parsed.confidence = ConfidenceState
            /\ parsed.state # None => parsed.state \in StateCodes
            /\ parsed.city # None => parsed.state # None
            /\ parsed.postal_code # None => parsed.state # None
            /\ loc_in.strict => parsed.confidence # ConfidenceFallback

\* a text with a two-letter token that is no state and with five digits was
\* parsed under strict: no state, no city, no postal code, confidence 0.0
C28_Witness ==
    /\ loc_out.op = "parse_us_location"
    /\ loc_in.strict
    /\ loc_in.text = <<"A", "u", "s", "t", "i", "n", ",", " ", "U", "K", " ", "7", "8", "7", "0", "1">>
    /\ loc_out.parsed.state = None
    /\ loc_out.parsed.city = None
    /\ loc_out.parsed.postal_code = None
    /\ ~loc_out.parsed.is_us
    /\ loc_out.parsed.confidence = ConfidenceNone

\* C29: without strict every text that is not empty, a text of blanks and
\* "London, UK" included, is parsed as US, so that the location step of the
\* Canonicalizer rejects a posting only when its location text is empty;
\* the empty text is parsed as not US with confidence 0.0 whatever strict is.
C29_NonStrictAcceptsAllButEmpty ==
    /\ loc_out.op = "parse_us_location" =>
           /\ (~loc_in.strict /\ loc_in.text # <<>>) => loc_out.parsed.is_us
           /\ loc_in.text = <<>> =>
                  ~loc_out.parsed.is_us /\ loc_out.parsed.confidence = ConfidenceNone
    /\ (loc_out.op = "enforce_us_only" /\ ~loc_in.strict) =>
           (loc_out.rejected <=> loc_in.text = <<>>)

\* the location step ran without strict on "London, UK" and let it pass
C29_Witness ==
    /\ loc_out.op = "enforce_us_only"
    /\ ~loc_in.strict
    /\ loc_in.text = LondonUK
    /\ ~loc_out.rejected

(***************************************************************************)
(* SpecTimestamp: transform_to_canonical on postings that differ in their  *)
(* timestamp                                                               *)
(***************************************************************************)

MaxStamped == 2

UnusableStamps ==
    {Absent, None, <<>>, JsonNumber,
     <<"s", "o", "o", "n">>,
     <<"2", "0", "2", "5", "-", "1", "3", "-", "0", "1">>,
     <<"2", "0", "2", "5", "-", "0", "2", "-", "3", "0", "T", "1", "0", ":", "0", "0", ":", "0", "0", "Z">>}

UsableStamps ==
    {<<"2", "0", "2", "5", "-", "0", "1", "-", "1", "5">>,
     <<"2", "0", "2", "5", "-", "0", "1", "-", "1", "5", "T", "1", "0", ":", "0", "0", ":", "0", "0", "Z">>,
     <<"2", "0", "2", "4", "-", "0", "2", "-", "2", "9", "T", "2", "3", ":", "5", "9", ":", "5", "9", "-", "0", "5", ":", "0", "0">>}

StampedPool ==
    [id       : {<<"1">>},
     title    : {<<"a">>},
     location : {[kind |-> "object", name |-> AustinTX], [kind |-> "object", name |-> LondonUK]},
     posted   : UnusableStamps \cup UsableStamps]

InitTimestamp ==
    /\ IdleAcrossRuns /\ IdleIdentity /\ IdleBuild /\ IdleLocation /\ IdleKey /\ IdleDedupe /\ IdleLatest
    /\ tr_in \in [raw_jobs     : Seqs(StampedPool, MaxStamped),
                  company_name : {Acme},
                  source       : KnownSources,
                  run_date     : {1},
                  strict_us    : {TRUE}]
    /\ tr_out = NotCalled

SpecTimestamp == InitTimestamp /\ [][NextTransform]_vars

\* the postings of the batch located in the US
InUs == {i \in 1..Len(tr_in.raw_jobs) : tr_in.raw_jobs[i].location.name = AustinTX}

\* C19: whatever the timestamps of a batch, the call does not raise, no
\* posting is rejected with a transform error, the postings located in the
\* US all become valid records, in batch order, and the record of a posting
\* whose timestamp is missing, null, empty, a number or not an ISO date has
\* date_posted None.
C19_BadTimestampStillAccepted ==
    tr_out.called =>
        /\ ~tr_out.raised
        /\ ErrRejects = <<>>
        /\ Len(tr_out.valid_jobs) = Cardinality(InUs)
        /\ Len(tr_out.rejected_jobs) = Len(tr_in.raw_jobs) - Cardinality(InUs)
        /\ \A k \in 1..Len(tr_out.valid_jobs) :
               LET raw_job == tr_in.raw_jobs[KthIndex(InUs, k)]
               IN  raw_job.posted \in UnusableStamps => tr_out.valid_jobs[k].date_posted = None

\* a posting with the timestamp "soon" and one with a leap day were both
\* accepted, the first without a date and the second with its date
C19_Witness ==
    /\ tr_out.called
    /\ Len(tr_out.valid_jobs) = 2
    /\ tr_in.raw_jobs[1].posted = <<"s", "o", "o", "n">>
    /\ tr_out.valid_jobs[1].date_posted = None
    /\ tr_in.raw_jobs[2].posted = <<"2", "0", "2", "4", "-", "0", "2", "-", "2", "9", "T", "2", "3", ":", "5", "9", ":", "5", "9", "-", "0", "5", ":", "0", "0">>
    /\ tr_out.valid_jobs[2].date_posted = <<"date", 2024, 2, 29>>

(***************************************************************************)
(* SpecBuild: the build command of cli.py over the raw directory of one    *)
(* run date.  The directories come in the order iterdir yields them, which *)
(* is any order.                                                           *)
(***************************************************************************)

\* raw postings in one jobs.json
MaxGroupJobs == 2

\* raw postings of the run, over all its directories
MaxRunPostings == 4

Bolt == <<"B", "o", "l", "t">>

\* data/raw/<run_date>/<source>/<company_id>/ for two boards of one source
\* and a board of the other source
BuildDirs ==
    {[source |-> Greenhouse, company_name |-> Acme],
     [source |-> Greenhouse, company_name |-> Bolt],
     [source |-> Lever, company_name |-> Acme]}

\* one posting fetched twice, the second time with a posting date, and a
\* posting abroad with the same id
BuildPool ==
    {[id |-> <<"1">>, title |-> <<"a">>, posted |-> Absent,
      location |-> [kind |-> "object", name |-> AustinTX]],
     [id |-> <<"1">>, title |-> <<"a">>, posted |-> <<"2", "0", "2", "5", "-", "0", "1", "-", "1", "5">>,
      location |-> [kind |-> "object", name |-> AustinTX]],
     [id |-> <<"1">>, title |-> <<"a">>, posted |-> Absent,
      location |-> [kind |-> "object", name |-> LondonUK]]}

BuildRunDate == 1

\* _save_raw_jobs writes jobs.json only for a board that returned postings:
\* a directory without postings does not exist
InitBuild ==
    /\ IdleAcrossRuns /\ IdleIdentity /\ IdleLocation /\ IdleKey /\ IdleDedupe /\ IdleTransform /\ IdleLatest
    /\ bd_raw \in {raw \in [BuildDirs -> Seqs(BuildPool, MaxGroupJobs)] :
                      Cardinality(UNION {{<<dir, i>> : i \in 1..Len(raw[dir])} :
                                            dir \in BuildDirs}) <= MaxRunPostings}
    /\ bd = [visited |-> <<>>, all_jobs |-> <<>>, all_rejects |-> <<>>, phase |-> "loop"]

\* enrich_role_family, enrich_skills, enrich_industry: each sets its own
\* field of every job in place and returns the list as it is
enrich(jobs) == jobs

\* jobs, rejects = transform_to_canonical(raw_jobs, company_name, source,
\* run_date_obj, strict_us=strict_us) on the jobs.json of a directory
TransformedDir(dir) ==
    transform_to_canonical(bd_raw[dir], dir.company_name, dir.source, BuildRunDate, TRUE)

\* one turn of the loop over the company directories
ProcessCompanyDir(dir) ==
    /\ bd.phase = "loop"
    /\ bd_raw[dir] # <<>>
    /\ \A i \in 1..Len(bd.visited) : bd.visited[i] # dir
    /\ \E out \in {TransformedDir(dir)} :
           bd' = [bd EXCEPT !.visited = Append(@, dir),
                            !.all_jobs = @ \o out.valid_jobs,
                            !.all_rejects = @ \o out.rejected_jobs]
    /\ UNCHANGED <<key_calls, key_run, dd_jobs, dd_out, tr_in, tr_out, staged, latest, lt_last,
                 loc_in, loc_out, bd_raw,
                 id_calls,
                 xr_in, xr_out>>

\* after the loop: enrich, deduplicate, save
FinishBuild ==
    /\ bd.phase = "loop"
    /\ \A dir \in BuildDirs :
           bd_raw[dir] # <<>> => \E i \in 1..Len(bd.visited) : bd.visited[i] = dir
    /\ LET all_jobs == deduplicate_jobs(enrich(bd.all_jobs))
       IN  /\ bd' = [bd EXCEPT !.all_jobs = all_jobs, !.phase = "done"]
           /\ staged' \in save_to_parquet(staged, all_jobs, BuildRunDate)
    /\ UNCHANGED <<key_calls, key_run, dd_jobs, dd_out, tr_in, tr_out, latest, lt_last,
                 loc_in, loc_out, bd_raw,
                 id_calls,
                 xr_in, xr_out>>

NextBuild ==
    \/ \E dir \in BuildDirs : ProcessCompanyDir(dir)
    \/ FinishBuild

SpecBuild == InitBuild /\ [][NextBuild]_vars

RECURSIVE Extended(_)
\* list.extend over a sequence of lists
Extended(lists) == IF lists = <<>> THEN <<>> ELSE Head(lists) \o Extended(Tail(lists))

\* all_jobs and all_rejects after the loop took the directories in order,
\* out[dir] being what transform_to_canonical returns for dir
TransformedInOrder(out, order) ==
    [all_jobs    |-> Extended([i \in 1..Len(order) |-> out[order[i]].valid_jobs]),
     all_rejects |-> Extended([i \in 1..Len(order) |-> out[order[i]].rejected_jobs])]

\* every order in which the directories that exist can be visited
VisitOrders ==
    LET present == {dir \in BuildDirs : bd_raw[dir] # <<>>}
    IN  {order \in [1..Cardinality(present) -> present] :
            \A i, j \in DOMAIN order : order[i] = order[j] => i = j}

Count(seq, x) == Cardinality({i \in 1..Len(seq) : seq[i] = x})

\* one order of visiting, the same whatever order the build took
ReferenceOrder == CHOOSE order \in VisitOrders : TRUE

\* C18: when the build is done, whatever the order in which it visited the
\* directories, the records it kept and the rejects it collected are, as
\* collections, those of one fixed order of visiting, hence those of every
\* order; and before deduplication two records with one job_key always come
\* from one directory.
C18_GroupOrderDoesNotMatter ==
    /\ bd.phase = "done" =>
           \A ref \in {TransformedInOrder([dir \in BuildDirs |-> TransformedDir(dir)],
                                          ReferenceOrder)} :
               \A kept \in {deduplicate_jobs(enrich(ref.all_jobs))} :
                   /\ Range(bd.all_jobs) = Range(kept)
                   /\ Len(bd.all_jobs) = Len(kept)
                   /\ \A r \in Range(ref.all_rejects) \cup Range(bd.all_rejects) :
                          Count(bd.all_rejects, r) = Count(ref.all_rejects, r)
    /\ bd.phase = "loop" =>
           \A i, j \in 1..Len(bd.all_jobs) :
               bd.all_jobs[i].job_key = bd.all_jobs[j].job_key =>
                   /\ bd.all_jobs[i].source = bd.all_jobs[j].source
                   /\ bd.all_jobs[i].company_name = bd.all_jobs[j].company_name

\* three directories were visited, in another order than the fixed one: the
\* Lever board first, whose posting was rejected, then a Greenhouse board
\* that held one posting twice, of which the first was kept, then the other
\* Greenhouse board with the posting of the same id and title
C18_Witness ==
    /\ bd.phase = "done"
    /\ Len(bd.visited) = 3
    /\ bd.visited[1].source = Lever
    /\ bd.visited[2].company_name = Bolt
    /\ Len(bd_raw[bd.visited[2]]) = 2
    /\ bd_raw[bd.visited[2]][1].posted = Absent
    /\ bd_raw[bd.visited[2]][2].posted # Absent
    /\ bd_raw[bd.visited[2]][2].location.name = AustinTX
    /\ bd.visited # ReferenceOrder
    /\ Len(bd.all_jobs) = 2
    /\ bd.all_jobs[1].date_posted = None
    /\ Len(bd.all_rejects) = 1

(***************************************************************************)
(* SpecIdentity: two calls of generate_job_key, or two calls of            *)
(* generate_company_id, on texts that may hold the separator "|" that      *)
(* generate_hash joins its list with                                       *)
(***************************************************************************)

\* "|"-separated parts in an argument text
MaxParts == 2

IdentityLetters == {"a", "b"}

\* a, b, a|a, a|b, ...
IdentityTexts ==
    {str_join(<<"|">>, [i \in 1..Len(parts) |-> <<parts[i]>>]) :
        parts \in UNION {[1..k -> IdentityLetters] : k \in 1..MaxParts}}

\* company names: two that differ in case and surrounding blanks only, and
\* another one
IdentityCompanies == {<<"a">>, <<"A", " ">>, <<"b">>}

InitIdentity ==
    /\ IdleAcrossRuns /\ IdleBuild /\ IdleLocation /\ IdleKey /\ IdleDedupe /\ IdleTransform /\ IdleLatest
    /\ id_calls = <<>>

\* a call generate_job_key(source, company_name, source_job_id, title)
JobKeyCall(source, company_name, source_job_id, title) ==
    /\ Len(id_calls) < 2
    /\ \A k \in 1..Len(id_calls) : id_calls[k].fn = "generate_job_key"
    /\ id_calls' = Append(id_calls,
                          [fn |-> "generate_job_key",
                           args |-> [source |-> source, company_name |-> company_name,
                                     source_job_id |-> source_job_id, title |-> title],
                           result |-> generate_job_key(source, company_name, source_job_id, title)])
    /\ UNCHANGED <<key_calls, key_run, dd_jobs, dd_out, tr_in, tr_out, staged, latest, lt_last,
                 loc_in, loc_out, bd_raw, bd,
                 xr_in, xr_out>>

\* a call generate_company_id(company_name, domain)
CompanyIdCall(company_name, domain) ==
    /\ Len(id_calls) < 2
    /\ \A k \in 1..Len(id_calls) : id_calls[k].fn = "generate_company_id"
    /\ id_calls' = Append(id_calls,
                          [fn |-> "generate_company_id",
                           args |-> [company_name |-> company_name, domain |-> domain],
                           result |-> generate_company_id(company_name, domain)])
    /\ UNCHANGED <<key_calls, key_run, dd_jobs, dd_out, tr_in, tr_out, staged, latest, lt_last,
                 loc_in, loc_out, bd_raw, bd,
                 xr_in, xr_out>>

\* the first job key is asked for a posting of one Greenhouse board, the
\* second for any posting
NextIdentity ==
    \/ \E i, t \in IdentityTexts :
           id_calls = <<>> /\ JobKeyCall(Greenhouse, <<"a">>, i, t)
    \/ \E s \in KeySources : \E c \in IdentityCompanies : \E i, t \in IdentityTexts :
           id_calls # <<>> /\ JobKeyCall(s, c, i, t)
    \/ \E n \in IdentityTexts \cup IdentityCompanies : \E d \in IdentityTexts \cup {None} :
           CompanyIdCall(n, d)

SpecIdentity == InitIdentity /\ [][NextIdentity]_vars

\* the domain as generate_company_id takes it: missing, or lowercased and
\* trimmed
DomainNorm(domain) == IF domain = None THEN None ELSE str_strip(str_lower(domain))

\* C27: two postings get the same job_key only if their source, their
\* lowercased and trimmed company and title and their trimmed id are equal;
\* two companies get the same company id only if their lowercased and
\* trimmed names and domains are equal, a missing domain being equal to no
\* domain that is present.
C27_IdentityKeysInjective ==
    (Len(id_calls) = 2 /\ id_calls[1].result = id_calls[2].result) =>
        LET a == id_calls[1].args
            b == id_calls[2].args
        IN  IF id_calls[1].fn = "generate_job_key"
            THEN \A f \in KeyFields : KeyNorm(f, a[f]) = KeyNorm(f, b[f])
            ELSE /\ str_strip(str_lower(a.company_name)) = str_strip(str_lower(b.company_name))
                 /\ DomainNorm(a.domain) = DomainNorm(b.domain)

(***************************************************************************)
(* SpecAcrossRuns: deduplicate_across_runs, the current run against the    *)
(* history                                                                 *)
(***************************************************************************)

MaxCurrent == 3

MaxHistory == 2

\* the current run's records: one posting scraped twice, and another posting
AcrossPool ==
    {PoolJob(Greenhouse, <<"1">>, <<"a">>, "v1", None, 10, 2),
     PoolJob(Greenhouse, <<"1">>, <<"a">>, "v2", None, 20, 2),
     PoolJob(Greenhouse, <<"2">>, <<"a">>, "v1", None, 10, 2)}

\* rows an earlier run stored: the first posting, and a posting of another source
HistoryRows ==
    {DataFrame(<<model_dump(job)>>)[1] :
        job \in {PoolJob(Greenhouse, <<"1">>, <<"a">>, "v1", None, 10, 1),
                 PoolJob(Lever, <<"1">>, <<"a">>, "v1", None, 10, 1)}}

NoAcrossCall == [called |-> FALSE, new_jobs |-> <<>>, existing_jobs |-> <<>>]

InitAcrossRuns ==
    /\ IdleIdentity /\ IdleBuild /\ IdleLocation /\ IdleKey /\ IdleDedupe /\ IdleTransform /\ IdleLatest
    /\ xr_in \in [current_jobs : Seqs(AcrossPool, MaxCurrent),
                  historical_df : Seqs(HistoryRows, MaxHistory)]
    /\ xr_out = NoAcrossCall

\* set(historical_df["job_key"].unique())
historical_keys_of(historical_df) == {historical_df[i].job_key : i \in 1..Len(historical_df)}

RECURSIVE split_loop(_, _, _, _)
\* the for loop of deduplicate_across_runs from job i on, given the two lists
\* built so far
split_loop(current_jobs, historical_keys, i, lists) ==
    IF i > Len(current_jobs) THEN lists
    ELSE split_loop(current_jobs, historical_keys, i + 1,
             IF current_jobs[i].job_key \in historical_keys
             THEN [lists EXCEPT !.existing_jobs = Append(@, current_jobs[i])]
             ELSE [lists EXCEPT !.new_jobs = Append(@, current_jobs[i])])

RECURSIVE split_loop_Seen(_, _, _, _)
\* the loop, had it remembered every key it passes
split_loop_Seen(current_jobs, historical_keys, i, lists) ==
    IF i > Len(current_jobs) THEN lists
    ELSE split_loop_Seen(current_jobs, historical_keys \cup {current_jobs[i].job_key}, i + 1,
             IF current_jobs[i].job_key \in historical_keys
             THEN [lists EXCEPT !.existing_jobs = Append(@, current_jobs[i])]
             ELSE [lists EXCEPT !.new_jobs = Append(@, current_jobs[i])])

\* deduplicate_across_runs, had it also compared the current jobs with one another
deduplicate_across_runs_Seen(current_jobs, historical_df) ==
    IF current_jobs = <<>> THEN [new_jobs |-> <<>>, existing_jobs |-> <<>>]
    ELSE IF historical_df = <<>> THEN [new_jobs |-> current_jobs, existing_jobs |-> <<>>]
    ELSE split_loop_Seen(current_jobs, historical_keys_of(historical_df), 1,
                         [new_jobs |-> <<>>, existing_jobs |-> <<>>])

\* deduplicate_across_runs(current_jobs, historical_df): the pair it returns
deduplicate_across_runs(current_jobs, historical_df) ==
    IF current_jobs = <<>> THEN [new_jobs |-> <<>>, existing_jobs |-> <<>>]
    ELSE IF historical_df = <<>> THEN [new_jobs |-> current_jobs, existing_jobs |-> <<>>]
    ELSE split_loop(current_jobs, historical_keys_of(historical_df), 1,
                    [new_jobs |-> <<>>, existing_jobs |-> <<>>])

\* one call of deduplicate_across_runs
AcrossRuns ==
    /\ ~xr_out.called
    /\ \E out \in {deduplicate_across_runs(xr_in.current_jobs, xr_in.historical_df)} :
           xr_out' = [called |-> TRUE, new_jobs |-> out.new_jobs,
                      existing_jobs |-> out.existing_jobs]
    /\ UNCHANGED <<key_calls, key_run, dd_jobs, dd_out, tr_in, tr_out, staged, latest, lt_last,
                   loc_in, loc_out,
                   bd_raw, bd,
                   id_calls,
                   xr_in>>

NextAcrossRuns == AcrossRuns

SpecAcrossRuns == InitAcrossRuns /\ [][NextAcrossRuns]_vars

\* the indices of current_jobs whose job_key occurs in the historical data
InHistory == {i \in 1..Len(xr_in.current_jobs) :
                 \E h \in 1..Len(xr_in.historical_df) :
                     xr_in.historical_df[h].job_key = xr_in.current_jobs[i].job_key}

\* C30: deduplicate_across_runs partitions current_jobs: the jobs whose job_key
\* occurs in the historical data are existing_jobs, all the others are
\* new_jobs, each list in the original relative order; with an empty history
\* every job is new, and with no current jobs both lists are empty.
C30_AcrossRunsPartitionsCurrent ==
    xr_out.called =>
        /\ xr_out.existing_jobs = SelectIndices(xr_in.current_jobs, InHistory, 1)
        /\ xr_out.new_jobs =
               SelectIndices(xr_in.current_jobs, (1..Len(xr_in.current_jobs)) \ InHistory, 1)
        /\ Len(xr_out.new_jobs) + Len(xr_out.existing_jobs) = Len(xr_in.current_jobs)
        /\ xr_in.historical_df = <<>> =>
               (xr_out.new_jobs = xr_in.current_jobs /\ xr_out.existing_jobs = <<>>)
        /\ xr_in.current_jobs = <<>> => (xr_out.new_jobs = <<>> /\ xr_out.existing_jobs = <<>>)

\* a posting known to the history appears twice around a new one: both copies
\* are existing, the other is new
C30_Witness ==
    /\ xr_out.called
    /\ Len(xr_in.current_jobs) = 3
    /\ Len(xr_out.existing_jobs) = 2
    /\ Len(xr_out.new_jobs) = 1
    /\ xr_in.current_jobs[2] = xr_out.new_jobs[1]
    /\ xr_out.existing_jobs[1] # xr_out.existing_jobs[2]

====
